---- MODULE Spec2Model ----
(***************************************************************************)
(* Arkadia Data (AKD) codec: the node builder (core/Parser.ts), the        *)
(* cursor-driven Decoder, the Encoder and the Meta / Schema / Node data    *)
(* model, as operators over an explicit object heap.                       *)
(*                                                                         *)
(* Text is a sequence of one-character strings.  Objects that the code     *)
(* shares by reference (Schema, Node) live in heaps S and N and are named  *)
(* by their index; 0 is null.  Every operator that the code runs for its   *)
(* side effects takes the state record and returns the updated one.        *)
(***************************************************************************)
EXTENDS Integers, Sequences, FiniteSets, TLC

\* ------------------------------------------------------------------------
\* Characters and strings
\* ------------------------------------------------------------------------

LowerLetters == {"a","b","c","d","e","f","g","h","i","j","k","l","m",
                 "n","o","p","q","r","s","t","u","v","w","x","y","z"}

UpperLetters == {"A","B","C","D","E","F","G","H","I","J","K","L","M",
                 "N","O","P","Q","R","S","T","U","V","W","X","Y","Z"}

DigitChars == <<"0","1","2","3","4","5","6","7","8","9">>

Digits == {DigitChars[k] : k \in 1..10}

\* /[a-zA-Z_]/
IsIdentStart(ch) == ch \in LowerLetters \cup UpperLetters \cup {"_"}

\* /[a-zA-Z0-9_]/
IsIdentPart(ch) == IsIdentStart(ch) \/ ch \in Digits

\* /\s/
IsSpace(ch) == ch \in {" ", "\n", "\t", "\r"}

\* /\d/
IsDigit(ch) == ch \in Digits

DigitVal(ch) == CHOOSE d \in 0..9 : DigitChars[d + 1] = ch

RECURSIVE NatToChars(_)
NatToChars(n) ==
    IF n < 10 THEN <<DigitChars[n + 1]>>
    ELSE NatToChars(n \div 10) \o <<DigitChars[(n % 10) + 1]>>

\* String(v) for an integral number
NumToChars(n) == IF n < 0 THEN <<"-">> \o NatToChars(0 - n) ELSE NatToChars(n)

RECURSIVE TrimLeft(_)
TrimLeft(s) == IF s # <<>> /\ IsSpace(Head(s)) THEN TrimLeft(Tail(s)) ELSE s

RECURSIVE TrimRight(_)
TrimRight(s) ==
    IF s # <<>> /\ IsSpace(s[Len(s)]) THEN TrimRight(SubSeq(s, 1, Len(s) - 1)) ELSE s

\* String.prototype.trim
Trim(s) == TrimRight(TrimLeft(s))

StartsWith(s, ch) == s # <<>> /\ Head(s) = ch

RECURSIVE Join(_, _)
Join(parts, sep) ==
    IF parts = <<>> THEN <<>>
    ELSE IF Len(parts) = 1 THEN parts[1]
    ELSE parts[1] \o sep \o Join(Tail(parts), sep)

RECURSIVE Spaces(_)
Spaces(n) == IF n <= 0 THEN <<>> ELSE <<" ">> \o Spaces(n - 1)

\* Type and literal names used by the code
T_any == <<"a","n","y">>
T_string == <<"s","t","r","i","n","g">>
T_number == <<"n","u","m","b","e","r">>
T_bool == <<"b","o","o","l">>
T_null == <<"n","u","l","l">>
T_int == <<"i","n","t">>
T_float == <<"f","l","o","a","t">>
T_binary == <<"b","i","n","a","r","y">>
T_list == <<"l","i","s","t">>
T_record == <<"r","e","c","o","r","d">>
T_true == <<"t","r","u","e">>
T_false == <<"f","a","l","s","e">>
T_required == <<"r","e","q","u","i","r","e","d">>
T_size == <<"s","i","z","e">>

\* ------------------------------------------------------------------------
\* Primitive values (Primitive = string | number | boolean | null)
\* ------------------------------------------------------------------------

VNull == [t |-> "null", n |-> 0, s |-> <<>>]
VBool(b) == [t |-> "bool", n |-> IF b THEN 1 ELSE 0, s |-> <<>>]
VNum(k) == [t |-> "num", n |-> k, s |-> <<>>]
VStr(chars) == [t |-> "str", n |-> 0, s |-> chars]
VTrue == VBool(TRUE)

\* ------------------------------------------------------------------------
\* Insertion-ordered maps (JS objects and Map): sequences of [k, v]
\* ------------------------------------------------------------------------

MapHas(m, key) == \E j \in 1..Len(m) : m[j].k = key

MapGet(m, key) ==
    IF MapHas(m, key) THEN m[CHOOSE j \in 1..Len(m) : m[j].k = key].v ELSE 0

MapSet(m, key, val) ==
    IF MapHas(m, key)
    THEN [j \in 1..Len(m) |-> IF m[j].k = key THEN [k |-> key, v |-> val] ELSE m[j]]
    ELSE Append(m, [k |-> key, v |-> val])

RECURSIVE MapAssign(_, _)
\* Object.assign(target, source)
MapAssign(target, source) ==
    IF source = <<>> THEN target
    ELSE MapAssign(MapSet(target, Head(source).k, Head(source).v), Tail(source))

\* ------------------------------------------------------------------------
\* Meta / MetaInfo
\* ------------------------------------------------------------------------

EmptyMeta == [comments |-> <<>>, attr |-> <<>>, tags |-> <<>>, required |-> FALSE]

\* Meta.applyCommonMeta: obj is any record with comments, attr, tags
applyCommonMeta(obj, info) ==
    [obj EXCEPT !.comments = @ \o info.comments,
                !.attr = MapAssign(@, info.attr),
                !.tags = @ \o info.tags]

\* Meta.clearCommonMeta
clearCommonMeta(obj) ==
    [obj EXCEPT !.comments = <<>>, !.attr = <<>>, !.tags = <<>>]

\* MetaInfo.applyMeta
MetaInfo_applyMeta(m, info) ==
    [applyCommonMeta(m, info) EXCEPT !.required = (m.required \/ info.required)]

HasMeta(obj) == obj.comments # <<>> \/ obj.attr # <<>> \/ obj.tags # <<>>

\* ------------------------------------------------------------------------
\* Schema
\* ------------------------------------------------------------------------

\* new Schema(kind, { typeName })
NewSchema(kind, typeName) ==
    [kind |-> kind,
     typeName |-> IF typeName = <<>> THEN T_any ELSE typeName,
     name |-> <<>>,
     element |-> 0,
     fields |-> <<>>,
     fmap |-> <<>>,
     comments |-> <<>>, attr |-> <<>>, tags |-> <<>>, required |-> FALSE]

isPrimitive(sc) == sc.kind = "PRIMITIVE"
isRecord(sc) == sc.kind = "RECORD"
isList(sc) == sc.kind = "LIST"

isAny(sc) ==
    \/ sc.kind = "ANY"
    \/ (sc.typeName = T_any /\ sc.kind = "PRIMITIVE")
    \/ (sc.typeName = T_any /\ sc.kind = "RECORD")

\* Schema.clearFields, on heap S
clearFields(S, s) == [S EXCEPT ![s].fields = <<>>, ![s].fmap = <<>>]

\* Schema.addField(field): s and f are heap indices
addField(S, s, f) ==
    LET fName == IF S[f].name # <<>> THEN S[f].name ELSE NatToChars(Len(S[s].fields))
        S1 == [S EXCEPT ![s].kind = "RECORD"]
        S2 == [S1 EXCEPT ![f].name = fName]
    IN [S2 EXCEPT ![s].fields = Append(@, f), ![s].fmap = MapSet(@, fName, f)]

\* Schema.getField(key: string); the caller checks isRecord
getField(S, s, key) == MapGet(S[s].fmap, key)

IndexOf(seq, x) ==
    IF \E j \in 1..Len(seq) : seq[j] = x
    THEN CHOOSE j \in 1..Len(seq) : seq[j] = x /\ \A h \in 1..(j - 1) : seq[h] # x
    ELSE 0

\* a replaceField that always appends
replaceField_append(S, s, f) == addField(S, s, f)

\* Schema.replaceField(field); the caller guarantees a non-empty name
replaceField(S, s, f) ==
    LET fName == S[f].name IN
    IF MapHas(S[s].fmap, fName)
    THEN LET old == MapGet(S[s].fmap, fName)
             idx == IndexOf(S[s].fields, old)
         IN [S EXCEPT ![s].fields = IF idx # 0 THEN [@ EXCEPT ![idx] = f] ELSE Append(@, f),
                      ![s].fmap = MapSet(@, fName, f)]
    ELSE addField(S, s, f)

\* Schema.clearMeta
Schema_clearMeta(sc) == [clearCommonMeta(sc) EXCEPT !.required = FALSE]

\* an applyMeta that assigns instead of merging
Schema_applyMeta_assign(sc, info) ==
    [sc EXCEPT !.comments = info.comments, !.attr = info.attr, !.tags = info.tags,
               !.required = info.required]

\* Schema.applyMeta(info): info is a MetaInfo or a Schema
Schema_applyMeta(sc, info) ==
    [applyCommonMeta(sc, info) EXCEPT !.required = (sc.required \/ info.required)]

\* ------------------------------------------------------------------------
\* Node
\* ------------------------------------------------------------------------

\* new Node(schema, { value })
NewNode(schema, value) ==
    [schema |-> schema, value |-> value, fields |-> <<>>, elements |-> <<>>,
     comments |-> <<>>, attr |-> <<>>, tags |-> <<>>]

\* Node.applyMeta
Node_applyMeta(nd, info) == applyCommonMeta(nd, info)

\* ------------------------------------------------------------------------
\* Decoder: state and low-level helpers
\* ------------------------------------------------------------------------

MAX_ERRORS == 50

\* new Decoder(text, schema, removeAnsiColors): the fields of the instance, the two
\* heaps, and registers for the value a method returns (rId: a Schema or Node,
\* rStr: a string, rVal: a Primitive, rB: a boolean; m: the MetaInfo that
\* parseMetaBlock is filling).  raised counts the calls of addError, exc records a
\* thrown Error, stuck a loop iteration that neither consumed a character nor left.
NewDecoder(text) ==
    [text |-> text, i |-> 0, pend |-> EmptyMeta, ns |-> <<>>, ss |-> <<>>,
     errors |-> <<>>, warnings |-> <<>>, named |-> <<>>, S |-> <<>>, N |-> <<>>,
     rId |-> 0, rStr |-> <<>>, rVal |-> VNull, rB |-> FALSE, m |-> EmptyMeta,
     raised |-> 0, exc |-> FALSE, stuck |-> FALSE]

eof(D) == D.i >= Len(D.text)

\* null is the empty string, which is no character
peek(D) == IF eof(D) THEN "" ELSE D.text[D.i + 1]

peekNext(D) == IF D.i + 1 < Len(D.text) THEN D.text[D.i + 2] ELSE ""

advance(D, n) ==
    [D EXCEPT !.i = IF D.i + n > Len(D.text) THEN Len(D.text) ELSE D.i + n]

RECURSIVE skipWhitespace(_)
skipWhitespace(D) ==
    IF ~eof(D) /\ IsSpace(peek(D)) THEN skipWhitespace(advance(D, 1)) ELSE D

currentSchema(D) == IF Len(D.ss) > 0 THEN D.ss[Len(D.ss)] ELSE 0

currentNode(D) == IF Len(D.ns) > 0 THEN D.ns[Len(D.ns)] ELSE 0

Diagnostic(D, msg, arg) ==
    [msg |-> msg, arg |-> arg, pos |-> D.i,
     schema |-> currentSchema(D), node |-> currentNode(D)]

\* addError without the check of MAX_ERRORS
addError_uncapped(D, msg, arg) ==
    [D EXCEPT !.errors = Append(@, Diagnostic(D, msg, arg)), !.raised = @ + 1]

addError(D, msg, arg) ==
    IF Len(D.errors) >= MAX_ERRORS THEN [D EXCEPT !.raised = @ + 1]
    ELSE [D EXCEPT !.errors = Append(@, Diagnostic(D, msg, arg)), !.raised = @ + 1]

addWarning(D, msg, arg) ==
    [D EXCEPT !.warnings = Append(@, Diagnostic(D, msg, arg))]

expect(D, ch) ==
    IF peek(D) # ch
    THEN [addError(D, "Expected", <<ch>>) EXCEPT !.rB = FALSE]
    ELSE [advance(D, 1) EXCEPT !.rB = TRUE]

\* Decoder.applyMeta(obj) for a Schema and for a Node
applyMetaS(D, s) ==
    [D EXCEPT !.S[s] = Schema_applyMeta(@, D.pend), !.pend = EmptyMeta]

applyMetaN(D, n) ==
    [D EXCEPT !.N[n] = Node_applyMeta(@, D.pend), !.pend = EmptyMeta]

\* allocation of a new Schema / Node on the heap; the new index is in rId
AllocSchema(D, sc) == [D EXCEPT !.S = Append(@, sc), !.rId = Len(D.S) + 1]

AllocNode(D, nd) == [D EXCEPT !.N = Append(@, nd), !.rId = Len(D.N) + 1]

pushSchema(D, s) == [D EXCEPT !.ss = Append(@, s)]

popSchema(D) ==
    LET s == currentSchema(D)
        D1 == [D EXCEPT !.ss = IF Len(@) > 0 THEN SubSeq(@, 1, Len(@) - 1) ELSE @,
                        !.rId = s]
    IN IF s # 0 /\ isList(D.S[s]) /\ D.S[s].element # 0
       THEN LET el == D.S[s].element
                S1 == [D.S EXCEPT ![s] = Schema_applyMeta(@, D.S[el])]
            IN [D1 EXCEPT !.S = [S1 EXCEPT ![el] = Schema_clearMeta(@)]]
       ELSE D1

pushNode(D, n) == [D EXCEPT !.ns = Append(@, n)]

popNode(D) ==
    [D EXCEPT !.ns = IF Len(@) > 0 THEN SubSeq(@, 1, Len(@) - 1) ELSE @,
              !.rId = currentNode(D)]

\* obj.applyMeta / push of the object a method has just allocated (in rId)
applyMetaS_rId(A) == applyMetaS(A, A.rId)

pushSchema_rId(A) == pushSchema(A, A.rId)

applyMetaN_rId(A) == applyMetaN(A, A.rId)

pushNode_rId(A) == pushNode(A, A.rId)

SetRId(D, id) == [D EXCEPT !.rId = id]

createSchema(D, kind, typeName) ==
    pushSchema_rId(applyMetaS_rId(AllocSchema(D, NewSchema(kind, typeName))))

\* typeof value, as createNode reads it
InferredTypeName(value) ==
    CASE value.t = "bool" -> T_bool
      [] value.t = "num" -> T_number
      [] OTHER -> T_string

\* createNode, 1: a missing current schema is replaced by a new ANY schema
createNode_context(D) ==
    IF currentSchema(D) = 0
    THEN pushSchema_rId(AllocSchema(D, NewSchema("ANY", <<>>)))
    ELSE D

\* createNode, 2: the inferred (or null) Schema is constructed before the choice
\* is made
createNode_inferred(D0, value) ==
    LET cur == D0.S[currentSchema(D0)] IN
    IF value.t # "null"
    THEN AllocSchema(D0, NewSchema("PRIMITIVE", InferredTypeName(value)))
    ELSE IF isRecord(cur) \/ isList(cur) THEN D0
    ELSE AllocSchema(D0, NewSchema("PRIMITIVE", T_null))

\* a createNode that always takes the current schema
createNode_node_context(D1, value) ==
    pushNode_rId(applyMetaN_rId(AllocNode(D1, NewNode(currentSchema(D1), value))))

\* createNode, 3: the choice of the final schema and the new Node; fresh is the
\* schema that createNode_inferred allocated
createNode_node(D1, value) ==
    LET currentS == currentSchema(D1)
        cur == D1.S[currentS]
        fresh == D1.rId
        compatible ==
            \/ cur.kind = "ANY"
            \/ cur.typeName = InferredTypeName(value)
            \/ (cur.typeName = T_number /\ InferredTypeName(value) \in {T_int, T_float})
        finalS ==
            IF value.t # "null"
            THEN IF cur.kind = "ANY" THEN fresh
                 ELSE IF compatible THEN currentS ELSE fresh
            ELSE IF isRecord(cur) \/ isList(cur) THEN currentS ELSE fresh
    IN pushNode_rId(applyMetaN_rId(AllocNode(D1, NewNode(finalS, value))))

createNode(D, value) ==
    createNode_node(createNode_inferred(createNode_context(D), value), value)

\* createNode(value) for the value a lexical parser left in rVal
createNode_rVal(D) == IF D.stuck THEN D ELSE createNode(D, D.rVal)

\* ------------------------------------------------------------------------
\* Decoder: lexical parsers
\* ------------------------------------------------------------------------

RECURSIVE IdentEnd(_, _)
\* the while loop of parseIdent and its slice of the text
IdentEnd(D, start) ==
    IF ~eof(D) /\ IsIdentPart(peek(D)) THEN IdentEnd(advance(D, 1), start)
    ELSE [D EXCEPT !.rStr = SubSeq(D.text, start + 1, D.i)]

parseIdent_at(D1) ==
    IF eof(D1) \/ ~IsIdentStart(peek(D1)) THEN [D1 EXCEPT !.rStr = <<>>]
    ELSE IdentEnd(advance(D1, 1), D1.i)

parseIdent(D) == parseIdent_at(skipWhitespace(D))

Unescape(esc) ==
    CASE esc = "n" -> "\n"
      [] esc = "t" -> "\t"
      [] esc = "r" -> "\r"
      [] OTHER -> esc

RECURSIVE QuotedBody(_, _)
\* the while loop of readQuotedString; res is the string read so far
QuotedBody(D, res) ==
    IF eof(D) \/ peek(D) = "\"" THEN [D EXCEPT !.rStr = res]
    ELSE IF peek(D) = "\\"
    THEN LET D1 == advance(D, 1)
         IN IF eof(D1)
            THEN [addError(D1, "Unexpected EOF inside string escape", <<>>)
                    EXCEPT !.rStr = res]
            ELSE QuotedBody(advance(D1, 1), Append(res, Unescape(peek(D1))))
    ELSE QuotedBody(advance(D, 1), Append(res, peek(D)))

readQuotedString(D) == expect(QuotedBody(expect(D, "\""), <<>>), "\"")

RECURSIVE SkipDigits(_)
SkipDigits(D) == IF IsDigit(peek(D)) THEN SkipDigits(advance(D, 1)) ELSE D

\* if (chars.includes(this.peek())) this.advance()
SkipIf(D, chars) == IF peek(D) \in chars THEN advance(D, 1) ELSE D

RECURSIVE DigitsValue(_, _)
DigitsValue(chars, acc) ==
    IF chars # <<>> /\ IsDigit(Head(chars))
    THEN DigitsValue(Tail(chars), acc * 10 + DigitVal(Head(chars)))
    ELSE acc

RECURSIVE LeadingDigits(_)
LeadingDigits(chars) ==
    IF chars # <<>> /\ IsDigit(Head(chars)) THEN 1 + LeadingDigits(Tail(chars)) ELSE 0

RECURSIVE Pow10(_)
Pow10(n) == IF n <= 0 THEN 1 ELSE 10 * Pow10(n - 1)

\* isNaN(parseFloat(raw)) for the text readNumber scanned: no digit where the
\* mantissa starts
IsNaNLiteral(raw) ==
    LET body == IF raw # <<>> /\ Head(raw) = "-" THEN Tail(raw) ELSE raw
    IN ~(\/ (body # <<>> /\ IsDigit(Head(body)))
         \/ (Len(body) >= 2 /\ Head(body) = "." /\ IsDigit(body[2])))

\* parseFloat(raw) on the integral numbers of the model: sign, integer digits and
\* a non-negative exponent; a fraction or a negative exponent is scanned by
\* readNumber but its value is outside the modelled numbers
parseFloat(raw) ==
    LET neg == raw # <<>> /\ Head(raw) = "-"
        body == IF neg THEN Tail(raw) ELSE raw
        n == LeadingDigits(body)
        rest == SubSeq(body, n + 1, Len(body))
        expDigits == IF rest # <<>> /\ rest[1] \in {"e", "E"}
                     THEN IF Len(rest) >= 2 /\ rest[2] = "+" THEN SubSeq(rest, 3, Len(rest))
                          ELSE Tail(rest)
                     ELSE <<>>
        mag == DigitsValue(body, 0) * Pow10(DigitsValue(expDigits, 0))
    IN IF neg THEN 0 - mag ELSE mag

\* readNumber: the fraction and the exponent
readNumber_fraction(D2) == IF peek(D2) = "." THEN SkipDigits(advance(D2, 1)) ELSE D2

readNumber_exponent(D3) ==
    IF peek(D3) \in {"e", "E"} THEN SkipDigits(SkipIf(advance(D3, 1), {"+", "-"}))
    ELSE D3

\* readNumber: the slice from start and its conversion
readNumber_value(D4, start) ==
    LET raw == SubSeq(D4.text, start + 1, D4.i)
    IN IF D4.stuck THEN D4
       ELSE IF IsNaNLiteral(raw)
       THEN [addError(D4, "Invalid number format", raw) EXCEPT !.rVal = VNum(0)]
       ELSE [D4 EXCEPT !.rVal = VNum(parseFloat(raw))]

readNumber(D) ==
    readNumber_value(
        readNumber_exponent(readNumber_fraction(SkipDigits(SkipIf(D, {"-"})))), D.i)

\* raw identifier -> Primitive (parseRawString, parsePrimitiveValue)
RawValue(raw) ==
    CASE raw = T_true -> VBool(TRUE)
      [] raw = T_false -> VBool(FALSE)
      [] raw = T_null -> VNull
      [] OTHER -> VStr(raw)

\* the string just read, as the Primitive the caller returns
StrVal(D) == [D EXCEPT !.rVal = VStr(D.rStr)]

RawVal(D) == [D EXCEPT !.rVal = RawValue(D.rStr)]

parsePrimitiveValue(D) ==
    LET ch == peek(D) IN
    IF ch = "" THEN [D EXCEPT !.rVal = VNull]
    ELSE IF ch = "\"" THEN StrVal(readQuotedString(D))
    ELSE IF IsDigit(ch) \/ ch = "-" THEN readNumber(D)
    ELSE RawVal(parseIdent(D))

RECURSIVE CommentBody(_, _, _)
\* the while loop of parseCommentBlock
CommentBody(D, nesting, content) ==
    IF eof(D) \/ nesting <= 0
    THEN [(IF nesting > 0 THEN addError(D, "Unterminated comment", <<>>) ELSE D)
            EXCEPT !.rStr = Trim(content)]
    ELSE LET ch == peek(D) IN
         IF ch = "\\"
         THEN LET D1 == advance(D, 1)
              IN CommentBody(advance(D1, 1), nesting,
                             IF eof(D1) THEN content ELSE Append(content, peek(D1)))
         ELSE IF ch = "/" /\ peekNext(D) = "*"
         THEN CommentBody(advance(D, 2), nesting + 1, content \o <<"/", "*">>)
         ELSE IF ch = "*" /\ peekNext(D) = "/"
         THEN CommentBody(advance(D, 2), nesting - 1,
                          IF nesting - 1 > 0 THEN content \o <<"*", "/">> ELSE content)
         ELSE CommentBody(advance(D, 1), nesting, Append(content, ch))

parseCommentBlock(D) == CommentBody(advance(D, 2), 1, <<>>)

\* the MetaInfo a modifier is written to: the decoder's pendingMeta (toPend) or
\* the local meta of parseMetaBlock (register m)
MetaTarget(D, toPend) == IF toPend THEN D.pend ELSE D.m

SetMetaTarget(D, toPend, meta) ==
    IF toPend THEN [D EXCEPT !.pend = meta] ELSE [D EXCEPT !.m = meta]

\* meta.comments.push(...) with the comment parseCommentBlock has just read
AddComment(D1, toPend) ==
    SetMetaTarget(D1, toPend, [MetaTarget(D1, toPend) EXCEPT !.comments = Append(@, D1.rStr)])

\* the optional "= value" of an attribute; without it the value is true
AttrValue(D2) ==
    IF peek(D2) = "=" THEN parsePrimitiveValue(advance(D2, 1))
    ELSE [D2 EXCEPT !.rVal = VTrue]

\* meta.attr[key] = val
SetAttr(D3, toPend, key) ==
    SetMetaTarget(D3, toPend, [MetaTarget(D3, toPend) EXCEPT !.attr = MapSet(@, key, D3.rVal)])

\* parseMetaAttribute once the key is read (in rStr)
parseMetaAttribute_value(D1, toPend) ==
    SetAttr(AttrValue(skipWhitespace(D1)), toPend, D1.rStr)

parseMetaAttribute(D, toPend) == parseMetaAttribute_value(parseIdent(advance(D, 1)), toPend)

parseMetaTag_add(D1, toPend) ==
    SetMetaTarget(D1, toPend, [MetaTarget(D1, toPend) EXCEPT !.tags = Append(@, D1.rStr)])

parseMetaTag(D, toPend) == parseMetaTag_add(parseIdent(advance(D, 1)), toPend)

parseMetaFlag_set(D1, toPend) ==
    IF D1.rStr = T_required
    THEN SetMetaTarget(D1, toPend, [MetaTarget(D1, toPend) EXCEPT !.required = TRUE])
    ELSE addWarning(D1, "Unknown flag", D1.rStr)

parseMetaFlag(D, toPend) == parseMetaFlag_set(parseIdent(advance(D, 1)), toPend)

parseModifierInline(D) ==
    LET ch == peek(D) IN
    CASE ch = "$" -> parseMetaAttribute(D, TRUE)
      [] ch = "#" -> parseMetaTag(D, TRUE)
      [] ch = "!" -> parseMetaFlag(D, TRUE)
      [] OTHER -> advance(D, 1)

\* obj.applyMeta(meta) for the obj that parseMeta was given: a Schema ("S"), a
\* Node ("N") or null ("none"); meta is the register m
ApplyTo(D, kind, id) ==
    CASE kind = "S" -> [D EXCEPT !.S[id] = Schema_applyMeta(@, D.m)]
      [] kind = "N" -> [D EXCEPT !.N[id] = Node_applyMeta(@, D.m)]
      [] OTHER -> [addWarning(D, "There is no parent to add the meta block", <<>>)
                     EXCEPT !.pend = MetaInfo_applyMeta(@, D.m)]

RECURSIVE MetaBlockBody(_)

\* parseMetaBlock, implicit attribute: the warning and the assignment
MetaBlockBody_attr(D3, key) ==
    [addWarning(D3, "Implicit attribute", key) EXCEPT !.m.attr = MapSet(@, key, D3.rVal)]

\* an iteration that left the cursor where it was (at i0) repeats forever
MetaBlockBody_next(D4, i0) ==
    IF D4.i = i0 THEN [D4 EXCEPT !.stuck = TRUE] ELSE MetaBlockBody(D4)

\* parseMetaBlock, implicit attribute: after parseIdent
MetaBlockBody_implicit(D1, i0) ==
    MetaBlockBody_next(MetaBlockBody_attr(AttrValue(skipWhitespace(D1)), D1.rStr), i0)

\* one iteration of the while loop of parseMetaBlock after its skipWhitespace
MetaBlockBody_token(D, i0) ==
    LET ch == peek(D) IN
    IF ch = "/" /\ peekNext(D) = "*"
    THEN MetaBlockBody(AddComment(parseCommentBlock(D), FALSE))
    ELSE IF ch = "/" THEN advance(D, 1)
    ELSE IF ch = "$" THEN MetaBlockBody(parseMetaAttribute(D, FALSE))
    ELSE IF ch = "#" THEN MetaBlockBody(parseMetaTag(D, FALSE))
    ELSE IF ch = "!" THEN MetaBlockBody(parseMetaFlag(D, FALSE))
    ELSE IF ch # "" /\ IsIdentPart(ch) THEN MetaBlockBody_implicit(parseIdent(D), i0)
    ELSE MetaBlockBody(advance(addError(D, "Unexpected token in meta block", <<ch>>), 1))

\* the while loop of parseMetaBlock, filling register m
MetaBlockBody(D0) ==
    IF eof(D0) THEN D0 ELSE MetaBlockBody_token(skipWhitespace(D0), D0.i)

parseMetaBlock(D, kind, id) ==
    ApplyTo(MetaBlockBody([expect(D, "/") EXCEPT !.m = EmptyMeta]), kind, id)

\* the loop of parseMeta goes on (rB) unless the iteration hung
parseMetaIter_go(D1) == [D1 EXCEPT !.rB = ~D1.stuck]

parseMetaIter_at(D, kind, id) ==
    LET ch == peek(D)
        nextCh == peekNext(D)
    IN
    IF ch = "/" /\ nextCh = "*"
    THEN parseMetaIter_go(AddComment(parseCommentBlock(D), TRUE))
    ELSE IF ch = "/" /\ nextCh # "*" THEN parseMetaIter_go(parseMetaBlock(D, kind, id))
    ELSE IF ch \in {"$", "#", "!"} THEN parseMetaIter_go(parseModifierInline(D))
    ELSE [D EXCEPT !.rB = FALSE]

\* one iteration of the while loop of parseMeta, entered with the cursor before
\* the end of the text; rB tells whether the loop goes on
parseMetaIter(D0, kind, id) == parseMetaIter_at(skipWhitespace(D0), kind, id)

RECURSIVE parseMeta(_, _, _)

parseMeta_next(D1, kind, id) == IF D1.rB THEN parseMeta(D1, kind, id) ELSE D1

parseMeta(D0, kind, id) ==
    IF eof(D0) THEN D0 ELSE parseMeta_next(parseMetaIter(D0, kind, id), kind, id)

\* parseMeta(this.currentSchema), parseMeta(this.currentNode)
parseMetaCurrentSchema(D) ==
    parseMeta(D, IF currentSchema(D) # 0 THEN "S" ELSE "none", currentSchema(D))

parseMetaCurrentNode(D) ==
    parseMeta(D, IF currentNode(D) # 0 THEN "N" ELSE "none", currentNode(D))

\* ------------------------------------------------------------------------
\* Decoder: schema definitions
\* ------------------------------------------------------------------------

PRIMITIVES == {T_string, T_bool, T_number, T_null, T_int, T_float, T_binary}

PRIMITIVES_MAPPING(name) == IF name \in {T_int, T_float} THEN T_number ELSE name

RECURSIVE parseSchemaBodyContent(_, _, _)
RECURSIVE SchemaContentLoop(_, _, _, _)
RECURSIVE parseSchemaType(_)

\* this.applyMeta(fieldSchema || schema)
applyMetaField(D, fieldSchema, schema) ==
    applyMetaS(D, IF fieldSchema # 0 THEN fieldSchema ELSE schema)

\* what one iteration of the loop of parseSchemaBodyContent leaves: the decoder
\* state, whether the loop goes on, and the local fieldSchema
SchemaContent_go(D, fieldSchema) == [D |-> D, go |-> TRUE, fieldSchema |-> fieldSchema]

SchemaContent_return(D) == [D |-> D, go |-> FALSE, fieldSchema |-> 0]

\* parseSchemaBodyContent, '[': the element schema el is parsed up to ']' (D4) and
\* linked, then the end character is consumed if it follows
SchemaContent_element(D4, el, schema, endChar) ==
    IF D4.stuck THEN D4
    ELSE applyMetaS(
             SkipIf(parseMeta([D4 EXCEPT !.S[schema].element = el], "S", schema),
                    {endChar}),
             schema)

SchemaContent_list(D3, schema, endChar) ==
    SchemaContent_element(parseSchemaBodyContent(D3, D3.rId, "]"), D3.rId, schema, endChar)

\* parseSchemaBodyContent, field: the field schema (in rId of D3) is named,
\* takes the pending and the trailing meta, and is added
SchemaContent_add(D3, name, schema) ==
    IF D3.stuck THEN SchemaContent_return(D3)
    ELSE SchemaContent_go(
             [applyMetaS(parseMeta(applyMetaS([D3 EXCEPT !.S[D3.rId].name = name], D3.rId),
                                   "S", schema), D3.rId)
                EXCEPT !.S = addField(@, schema, D3.rId)],
             D3.rId)

\* parseSchemaBodyContent after a name and the whitespace behind it
SchemaContent_named(D2, name, schema, fieldSchema) ==
    IF name \in PRIMITIVES /\ peek(D2) # ":"
    THEN SchemaContent_go(
             [D2 EXCEPT !.S[schema].kind = "PRIMITIVE",
                        !.S[schema].typeName = PRIMITIVES_MAPPING(name)],
             fieldSchema)
    ELSE SchemaContent_add(
             IF peek(D2) = ":" THEN parseSchemaType(advance(D2, 1))
             ELSE AllocSchema(D2, NewSchema("PRIMITIVE", T_any)),
             name, schema)

\* parseSchemaBodyContent after parseIdent
SchemaContent_field(D1, schema, fieldSchema) ==
    IF D1.rStr = <<>>
    THEN SchemaContent_go(advance(addError(D1, "Expected identifier", <<>>), 1), fieldSchema)
    ELSE SchemaContent_named(skipWhitespace(D1), D1.rStr, schema, fieldSchema)

\* one iteration of the while loop of parseSchemaBodyContent after its parseMeta
SchemaContent_token(D, schema, endChar, fieldSchema) ==
    LET ch == peek(D) IN
    IF D.stuck THEN SchemaContent_return(D)
    ELSE IF ch = endChar
    THEN SchemaContent_return(applyMetaField(advance(D, 1), fieldSchema, schema))
    ELSE IF ch = "["
    THEN SchemaContent_return(
             SchemaContent_list(
                 AllocSchema(
                     applyMetaS([advance(D, 1) EXCEPT
                                    !.S = clearFields([@ EXCEPT ![schema].kind = "LIST"], schema)],
                                schema),
                     NewSchema("ANY", <<>>)),
                 schema, endChar))
    ELSE IF ch = ","
    THEN SchemaContent_go(advance(applyMetaField(D, fieldSchema, schema), 1), fieldSchema)
    ELSE SchemaContent_field(parseIdent(D), schema, fieldSchema)

\* the loop goes on with the decoder state and the fieldSchema of the iteration
SchemaContentLoop_next(R, schema, endChar) ==
    IF R.go THEN SchemaContentLoop(R.D, schema, endChar, R.fieldSchema) ELSE R.D

\* the while loop of parseSchemaBodyContent; fieldSchema is the local of that name
SchemaContentLoop(D0, schema, endChar, fieldSchema) ==
    IF eof(D0) \/ D0.stuck THEN applyMetaField(D0, fieldSchema, schema)
    ELSE SchemaContentLoop_next(
             SchemaContent_token(parseMeta(D0, "S", schema), schema, endChar, fieldSchema),
             schema, endChar)

parseSchemaBodyContent(D, schema, endChar) == SchemaContentLoop(D, schema, endChar, 0)

\* parseSchemaBody once the schema is created (in rId of D2); opened tells
\* whether expect('<') succeeded
parseSchemaBody_end(D3, schema) == IF D3.stuck THEN D3 ELSE SetRId(popSchema(D3), schema)

parseSchemaBody_content(D2, opened) ==
    IF opened THEN parseSchemaBody_end(parseSchemaBodyContent(D2, D2.rId, ">"), D2.rId)
    ELSE popSchema(D2)

parseSchemaBody(D, typeName) ==
    parseSchemaBody_content(
        createSchema(expect(D, "<"), IF peek(D) = "<" THEN "RECORD" ELSE "ANY", typeName),
        peek(D) = "<")

\* namedSchemas.set(typeName, schema) for the schema parseSchemaBody returned
ResolveNamed_register(D1, name) ==
    [D1 EXCEPT !.S[D1.rId].kind = IF isAny(D1.S[D1.rId]) THEN "RECORD" ELSE @,
               !.named = MapSet(@, name, D1.rId)]

\* the lookup of a schema reference once its name is read: a body defines (and
\* registers) the schema, a known name returns the registered schema, an unknown
\* name a new empty record of that type name
ResolveNamed(D, name) ==
    IF peek(D) = "<" THEN ResolveNamed_register(parseSchemaBody(D, name), name)
    ELSE IF MapHas(D.named, name) THEN [D EXCEPT !.rId = MapGet(D.named, name)]
    ELSE AllocSchema(D, NewSchema("RECORD", name))

parseSchemaAtRef_name(D1) == ResolveNamed(skipWhitespace(D1), D1.rStr)

parseSchemaAtRef(D) == parseSchemaAtRef_name(parseIdent(advance(D, 1)))

\* parseSchemaType, '[': the list schema is in rId of D1
parseSchemaType_element(D2, lst) ==
    IF D2.stuck THEN D2
    ELSE SetRId(expect([D2 EXCEPT !.S[lst].element = D2.rId], "]"), lst)

parseSchemaType_list(D1) ==
    parseSchemaType_element(parseSchemaType(applyMetaS_rId(D1)), D1.rId)

\* parseSchemaType, '@': after parseIdent
parseSchemaType_ref(D1) == ResolveNamed(parseMetaCurrentSchema(D1), D1.rStr)

\* parseSchemaType, a bare name: after parseIdent
parseSchemaType_name(D1) ==
    LET name == D1.rStr
    IN IF name \in PRIMITIVES
       THEN applyMetaS_rId(AllocSchema(D1, NewSchema("PRIMITIVE", PRIMITIVES_MAPPING(name))))
       ELSE IF MapHas(D1.named, name) THEN [D1 EXCEPT !.rId = MapGet(D1.named, name)]
       ELSE IF name = <<>> THEN AllocSchema(D1, NewSchema("ANY", <<>>))
       ELSE AllocSchema(D1, NewSchema("RECORD", name))

parseSchemaType_at(D) ==
    LET ch == peek(D) IN
    IF ch = "[" THEN parseSchemaType_list(AllocSchema(advance(D, 1), NewSchema("LIST", <<>>)))
    ELSE IF ch = "@" THEN parseSchemaType_ref(parseIdent(advance(D, 1)))
    ELSE IF ch = "<" THEN parseSchemaBody(D, <<>>)
    ELSE parseSchemaType_name(parseIdent(D))

parseSchemaType(D0) == parseSchemaType_at(parseMetaCurrentSchema(D0))

\* ------------------------------------------------------------------------
\* Decoder: nodes
\* ------------------------------------------------------------------------

\* applyMeta(node) whatever the last child is
applyMetaLast_container(D, last, node) == applyMetaN(D, node)

\* this.applyMeta(childNode || node)
applyMetaLast(D, last, node) == applyMetaN(D, IF last # 0 THEN last ELSE node)

\* new Schema(valNode.schema.kind, { typeName: valNode.schema.typeName || 'any' })
InferredField(D, valNode, name) ==
    LET vs == D.S[D.N[valNode].schema]
    IN [NewSchema(vs.kind, vs.typeName) EXCEPT !.name = name]

RECURSIVE parseNode(_)
RECURSIVE ListLoop(_, _, _, _, _)
RECURSIVE PositionalLoop(_, _, _, _, _)
RECURSIVE NamedLoop(_, _, _, _)

parseString(D) == createNode_rVal(StrVal(readQuotedString(D)))

parseNumber(D) == createNode_rVal(readNumber(D))

parseRawString(D) == createNode_rVal(RawVal(parseIdent(D)))

\* parseNodeWithSchemaRef / parseNodeWithInlineSchema once the node is parsed
NodeUnderSchema_node(D1, schema) ==
    IF D1.stuck THEN D1
    ELSE [popSchema(D1) EXCEPT !.N[D1.rId].schema = schema, !.rId = D1.rId]

\* parseNodeWithSchemaRef / parseNodeWithInlineSchema after the schema is parsed
NodeUnderSchema(D) ==
    IF D.stuck THEN D ELSE NodeUnderSchema_node(parseNode(pushSchema_rId(D)), D.rId)

parseNodeWithSchemaRef(D) == NodeUnderSchema(parseSchemaAtRef(D))

parseNodeWithInlineSchema(D) == NodeUnderSchema(parseSchemaBody(D, <<>>))

\* parseList, one element: the node parseNode returned (in rId) is appended and
\* an any-typed element schema is replaced by the schema of that node
ListLoop_element(D1, node, parentSchema, childSchema) ==
    LET c == D1.rId
        el == D1.S[parentSchema].element
    IN IF D1.stuck THEN D1 ELSE
       ListLoop(
           popSchema(popNode(applyMetaN(
               [D1 EXCEPT !.N[node].elements = Append(@, c),
                          !.S[parentSchema].element =
                              IF el # 0 /\ isAny(D1.S[el]) /\ D1.N[c].schema # 0
                              THEN D1.N[c].schema ELSE @],
               c))),
           node, parentSchema, childSchema, c)

\* one iteration of the loop of parseList after parseMeta and pushSchema
ListLoop_token(D, node, parentSchema, childSchema, childNode) ==
    IF D.stuck THEN D
    ELSE IF eof(D) THEN addError(D, "Unexpected EOF: List not closed", <<>>)
    ELSE IF peek(D) = "]" THEN advance(applyMetaLast(D, childNode, node), 1)
    ELSE IF peek(D) = ","
    THEN ListLoop(advance(applyMetaLast(D, childNode, node), 1),
                  node, parentSchema, childSchema, childNode)
    ELSE ListLoop_element(parseNode(D), node, parentSchema, childSchema)

\* the while (true) loop of parseList
ListLoop(D0, node, parentSchema, childSchema, childNode) ==
    ListLoop_token(pushSchema(parseMeta(D0, "N", node), childSchema),
                   node, parentSchema, childSchema, childNode)

\* parseList after its loop
parseList_end(D4, node) == IF D4.stuck THEN D4 ELSE SetRId(popSchema(D4), node)

\* parseList once the list node is created (in rId)
parseList_node(D1) ==
    LET node == D1.rId
        sch == D1.N[node].schema
        A == AllocSchema(D1, NewSchema("ANY", <<>>))
        D2 == IF D1.S[sch].kind # "LIST"
              THEN [A EXCEPT !.S[sch].kind = "LIST", !.S[sch].typeName = T_list,
                             !.S[sch].element = A.rId]
              ELSE D1
        D3 == AllocSchema(D2, NewSchema("ANY", <<>>))
        childSchema == IF D3.S[sch].element # 0 THEN D3.S[sch].element ELSE D3.rId
    IN parseList_end(ListLoop([D3 EXCEPT !.N[node].elements = <<>>],
                              node, sch, childSchema, 0),
                     node)

parseList(D) == parseList_node(createNode(advance(D, 1), VNull))

\* parsePositionalRecord, one value: the node parseNode returned (in rId) is
\* stored under the predefined field or under a new inferred field "_<index>"
PositionalIter_value(D1, node, predefinedFields, index) ==
    LET v == D1.rId
        nsch == D1.N[node].schema
        name == <<"_">> \o NatToChars(index)
        B == AllocSchema(D1, InferredField(D1, v, name))
        D2 == IF index < Len(predefinedFields)
              THEN [D1 EXCEPT !.N[node].fields =
                        MapSet(@, D1.S[predefinedFields[index + 1]].name, v)]
              ELSE [B EXCEPT !.S = addField(@, nsch, B.rId),
                             !.N[node].fields = MapSet(@, name, v)]
    IN IF D1.stuck THEN [D |-> D1, go |-> FALSE, index |-> index, valNode |-> 0]
       ELSE [D |-> popSchema(popNode(applyMetaN(D2, v))), go |-> TRUE,
             index |-> index + 1, valNode |-> v]

\* one iteration of the loop of parsePositionalRecord after its parseMeta
PositionalIter_token(D, node, predefinedFields, index, valNode) ==
    IF D.stuck THEN [D |-> D, go |-> FALSE, index |-> index, valNode |-> valNode]
    ELSE IF peek(D) = ")"
    THEN [D |-> advance(applyMetaLast(D, valNode, node), 1), go |-> FALSE,
          index |-> index, valNode |-> valNode]
    ELSE IF peek(D) = ","
    THEN [D |-> advance(applyMetaLast(D, valNode, node), 1), go |-> TRUE,
          index |-> index, valNode |-> valNode]
    ELSE LET A == AllocSchema(D, NewSchema("ANY", <<>>))
             fieldSchema == IF index < Len(predefinedFields)
                            THEN predefinedFields[index + 1] ELSE A.rId
         IN PositionalIter_value(parseNode(pushSchema(A, fieldSchema)),
                                 node, predefinedFields, index)

\* one iteration of the while (!eof) loop of parsePositionalRecord, entered with
\* the cursor before the end of the text: the decoder state, whether the loop goes
\* on, and the locals index and valNode
PositionalIter(D0, node, predefinedFields, index, valNode) ==
    PositionalIter_token(parseMeta(D0, "N", node), node, predefinedFields, index, valNode)

PositionalLoop_next(R, node, predefinedFields) ==
    IF R.go /\ ~R.D.stuck THEN PositionalLoop(R.D, node, predefinedFields, R.index, R.valNode)
    ELSE R.D

PositionalLoop(D0, node, predefinedFields, index, valNode) ==
    IF eof(D0) THEN D0
    ELSE PositionalLoop_next(PositionalIter(D0, node, predefinedFields, index, valNode),
                             node, predefinedFields)

\* parsePositionalRecord / parseNamedRecord: the schema of the new node (in rId)
\* becomes a record unless it is one
RecordSchema(D1) ==
    LET sch == D1.N[D1.rId].schema
    IN IF D1.S[sch].kind # "RECORD"
       THEN [D1 EXCEPT !.S[sch].kind = "RECORD", !.S[sch].typeName = T_any]
       ELSE D1

\* parsePositionalRecord up to its loop: the node is in rId
PositionalStart(D) == RecordSchema(createNode(advance(D, 1), VNull))

\* the fields of the node's schema, copied before the loop
PredefinedFields(D2) == D2.S[D2.N[D2.rId].schema].fields

\* parsePositionalRecord / parseNamedRecord after the loop
RecordEnd_node(D3, node) == IF D3.stuck THEN D3 ELSE SetRId(D3, node)

parsePositionalRecord_loop(D2) ==
    RecordEnd_node(PositionalLoop(D2, D2.rId, PredefinedFields(D2), 0, 0), D2.rId)

parsePositionalRecord(D) == parsePositionalRecord_loop(PositionalStart(D))

\* currentSchema.replaceField(field), which throws on a field without a name
replaceFieldOf(D, s, f) ==
    IF D.S[f].name = <<>> THEN [D EXCEPT !.exc = TRUE]
    ELSE [D EXCEPT !.S = replaceField(@, s, f)]

\* the schema bookkeeping of parseNamedRecord once the value is parsed
NamedFieldUpdate(D, node, currentS, keyName, v) ==
    IF ~isRecord(D.S[currentS]) THEN D
    ELSE LET existing == getField(D.S, currentS, keyName)
             vs == D.N[v].schema
             B == AllocSchema(D, InferredField(D, v, keyName))
         IN IF existing # 0 /\ isAny(D.S[existing]) /\ ~isAny(D.S[vs])
            THEN replaceFieldOf([D EXCEPT !.S[vs].name = keyName], currentS, vs)
            ELSE IF existing = 0
            THEN [B EXCEPT !.S = addField(@, B.N[node].schema, B.rId)]
            ELSE D

\* parseNamedRecord, one value: the node parseNode returned (in rId)
NamedLoop_value(D1, keyName, node, currentS) ==
    IF D1.stuck THEN D1 ELSE
    NamedLoop(
        popSchema(popNode(applyMetaN(
            [NamedFieldUpdate(D1, node, currentS, keyName, D1.rId)
               EXCEPT !.N[node].fields = MapSet(@, keyName, D1.rId)],
            D1.rId))),
        node, currentS, D1.rId)

\* parseNamedRecord after the key (in rStr of K): the colon and the field schema
NamedLoop_colon(K, node, currentS) ==
    LET A == AllocSchema(expect(skipWhitespace(K), ":"), NewSchema("ANY", <<>>))
        existing == IF isRecord(K.S[currentS]) THEN getField(K.S, currentS, K.rStr) ELSE 0
    IN NamedLoop_value(parseNode(pushSchema(A, IF existing # 0 THEN existing ELSE A.rId)),
                       K.rStr, node, currentS)

\* parseNamedRecord after parseIdent: a quoted key, or an error
NamedLoop_key(I, node, currentS, valNode) ==
    IF I.rStr = <<>> /\ peek(I) # "\""
    THEN NamedLoop(advance(addError(I, "Expected key in record", <<>>), 1),
                   node, currentS, valNode)
    ELSE NamedLoop_colon(IF I.rStr # <<>> THEN I ELSE readQuotedString(I), node, currentS)

\* one iteration of the loop of parseNamedRecord after its parseMeta
NamedLoop_token(D, node, currentS, valNode) ==
    IF D.stuck THEN D
    ELSE IF peek(D) = "}" THEN advance(applyMetaLast(D, valNode, node), 1)
    ELSE IF peek(D) = ","
    THEN NamedLoop(advance(applyMetaLast(D, valNode, node), 1), node, currentS, valNode)
    ELSE NamedLoop_key(parseIdent(D), node, currentS, valNode)

\* the while (!eof) loop of parseNamedRecord
NamedLoop(D0, node, currentS, valNode) ==
    IF eof(D0) \/ D0.stuck THEN D0
    ELSE NamedLoop_token(parseMeta(D0, "N", node), node, currentS, valNode)

parseNamedRecord_loop(D2) ==
    RecordEnd_node(NamedLoop([D2 EXCEPT !.N[D2.rId].fields = <<>>], D2.rId,
                             D2.N[D2.rId].schema, 0),
                   D2.rId)

parseNamedRecord(D) == parseNamedRecord_loop(RecordSchema(createNode(advance(D, 1), VNull)))

\* parseNode after its parseMeta
parseNode_at(D) ==
    LET ch == peek(D) IN
    IF eof(D)
    THEN createNode(addError(D, "Unexpected EOF while expecting a node", <<>>), VNull)
    ELSE applyMetaN_rId(
             CASE ch = "@" -> parseNodeWithSchemaRef(D)
               [] ch = "<" -> parseNodeWithInlineSchema(D)
               [] ch = "[" -> parseList(D)
               [] ch = "(" -> parsePositionalRecord(D)
               [] ch = "{" -> parseNamedRecord(D)
               [] ch = "\"" -> parseString(D)
               [] IsDigit(ch) \/ ch = "-" -> parseNumber(D)
               [] IsIdentStart(ch) -> parseRawString(D)
               [] OTHER ->
                    createNode(advance(addError(D, "Unexpected character", <<ch>>), 1),
                               VNull))

parseNode(D0) == parseNode_at(parseMetaCurrentNode(D0))

\* ------------------------------------------------------------------------
\* Decoder: entry
\* ------------------------------------------------------------------------

RECURSIVE SchemaPrologue(_, _)

\* the schema processing loop of decode after a schema (in rId of D2) and the
\* meta behind it: an inline schema becomes the context unless data follows
\* directly, a referenced schema becomes the result unless a schema follows
SchemaPrologue_parsed(D2, ctx, inline) ==
    IF inline
    THEN IF peek(D2) \in {"(", "{", "["} THEN D2 ELSE SchemaPrologue(D2, D2.rId)
    ELSE IF peek(D2) \in {"@", "<"} THEN SchemaPrologue(D2, ctx) ELSE D2

\* the schema processing loop of decode; ctx is rootSchemaContext; the result has
\* the final rootSchemaContext in rId
SchemaPrologue(D, ctx) ==
    IF eof(D) \/ D.stuck THEN [D EXCEPT !.rId = ctx]
    ELSE IF peek(D) = "<"
    THEN SchemaPrologue_parsed(parseMeta(parseSchemaBody(D, <<>>), "none", 0), ctx, TRUE)
    ELSE IF peek(D) = "@"
    THEN SchemaPrologue_parsed(parseMeta(parseSchemaAtRef(D), "none", 0), ctx, FALSE)
    ELSE [D EXCEPT !.rId = ctx]

\* if (rootSchemaContext) this.pushSchema(rootSchemaContext)
DecodeRootContext_push(D1) == IF D1.rId # 0 THEN pushSchema_rId(D1) ELSE D1

\* Decoder.decode() after its leading parseMeta: the optional schema prologue
\* and the push of the root schema context, which is left in rId
DecodeRootContext(D0) == DecodeRootContext_push(SchemaPrologue(D0, 0))

\* the root schema context is popped and linked to a root node without a type
DecodeFinish_link(D3, ctx, rootNode) ==
    LET P == popSchema(D3)
    IN IF ctx = 0 THEN D3
       ELSE IF P.N[rootNode].schema = 0 \/ isAny(P.S[P.N[rootNode].schema])
       THEN [P EXCEPT !.N[rootNode].schema = ctx]
       ELSE P

\* the DecodeResult: the final decoder state, the root node and its schema
DecodeResult(D5, ctx, rootNode) ==
    [D |-> D5, root |-> rootNode,
     rootSchema |-> IF ctx # 0 THEN ctx ELSE D5.N[rootNode].schema]

\* Decoder.decode() after the root node is parsed: the schema context is popped
\* and linked, trailing meta is consumed and the node stack is cleaned up
DecodeFinish(D3, ctx, rootNode) ==
    DecodeResult(
        popNode(applyMetaN(parseMeta(DecodeFinish_link(D3, ctx, rootNode), "none", 0),
                           rootNode)),
        ctx, rootNode)

\* decode after the root node (in rId of D3); a hung parse has no result
decode_finish(D3, ctx) ==
    IF D3.stuck THEN [D |-> D3, root |-> D3.rId, rootSchema |-> 0]
    ELSE DecodeFinish(D3, ctx, D3.rId)

\* decode once the root schema context is known (in rId of C)
decode_root(C) ==
    decode_finish(IF eof(C) THEN createNode(C, VNull) ELSE parseNode(C), C.rId)

\* Decoder.decode(): the final decoder state; root and rootSchema are the node
\* and the schema of the DecodeResult
decode(text) == decode_root(DecodeRootContext(parseMeta(NewDecoder(text), "none", 0)))

\* ------------------------------------------------------------------------
\* Encoder: configuration and pure helpers
\* ------------------------------------------------------------------------

DEFAULT_CONFIG ==
    [indent |-> 2, startIndent |-> 0, compact |-> FALSE, escapeNewLines |-> FALSE,
     colorize |-> FALSE, includeComments |-> TRUE, includeArraySize |-> FALSE,
     includeSchema |-> TRUE, includeMeta |-> TRUE, includeType |-> TRUE]

\* { ...DEFAULT_CONFIG, compact: true }
CompactConfig == [DEFAULT_CONFIG EXCEPT !.compact = TRUE]

\* the ANSI colour sequences of class Colors; "ESC" stands for the character \x1b
Color(code) == <<"ESC", "[">> \o code \o <<"m">>
Colors_RESET == Color(<<"0">>)
Colors_STRING == Color(<<"9", "2">>)
Colors_NUMBER == Color(<<"9", "4">>)
Colors_BOOL == Color(<<"9", "5">>)
Colors_NULL == Color(<<"9", "0">>)
Colors_TYPE == Color(<<"9", "6">>)
Colors_KEY == Color(<<"9", "3">>)
Colors_SCHEMA == Color(<<"9", "1">>)
Colors_TAG == Color(<<"3", "5">>)
Colors_ATTR == Color(<<"9", "3">>)

\* Encoder.c(text, color)
c(cfg, text, color) == IF ~cfg.colorize THEN text ELSE color \o text \o Colors_RESET

Pad(cfg) == IF cfg.compact THEN <<>> ELSE <<" ">>

\* /^[a-zA-Z_][a-zA-Z0-9_]*$/.test(name)
IsIdentifier(name) ==
    /\ name # <<>>
    /\ IsIdentStart(name[1])
    /\ \A k \in 2..Len(name) : IsIdentPart(name[k])

\* the backtick character, which a string literal here cannot hold
Backtick == "BACKTICK"

escapeIdent(name) ==
    IF name = <<>> THEN <<>>
    ELSE IF IsIdentifier(name) THEN name
    ELSE <<Backtick>> \o name \o <<Backtick>>

RECURSIVE EscapeChars_quotesOnly(_, _)
\* an escaping that leaves backslashes as they are
EscapeChars_quotesOnly(v, escapeNewLines) ==
    IF v = <<>> THEN <<>>
    ELSE (IF Head(v) = "\"" THEN <<"\\", "\"">> ELSE <<Head(v)>>)
            \o EscapeChars_quotesOnly(Tail(v), escapeNewLines)

RECURSIVE EscapeChars(_, _)
\* the chain of String.replace calls of encodeString, character by character
EscapeChars(v, escapeNewLines) ==
    IF v = <<>> THEN <<>>
    ELSE LET ch == Head(v)
             out == CASE ch = "\\" -> <<"\\", "\\">>
                      [] ch = "\"" -> <<"\\", "\"">>
                      [] ch = "\n" /\ escapeNewLines -> <<"\\", "n">>
                      [] ch = "\r" /\ escapeNewLines -> <<"\\", "r">>
                      [] ch = "\t" /\ escapeNewLines -> <<"\\", "t">>
                      [] OTHER -> <<ch>>
         IN out \o EscapeChars(Tail(v), escapeNewLines)

encodeString(cfg, v) ==
    c(cfg, <<"\"">> \o EscapeChars(v, cfg.escapeNewLines) \o <<"\"">>, Colors_STRING)

primitiveValue(cfg, v) ==
    CASE v.t = "str" -> encodeString(cfg, v.s)
      [] v.t = "bool" -> c(cfg, IF v.n = 1 THEN T_true ELSE T_false, Colors_BOOL)
      [] v.t = "null" -> c(cfg, T_null, Colors_NULL)
      [] OTHER -> c(cfg, NumToChars(v.n), Colors_NUMBER)

\* (obj as Schema).required: a Node has no such property
IsRequired(obj) == "required" \in DOMAIN obj /\ obj.required

CommentItems(cfg, obj) ==
    IF cfg.includeComments
    THEN [k \in 1..Len(obj.comments) |->
            c(cfg, <<"/", "*">> \o Pad(cfg) \o Trim(obj.comments[k]) \o Pad(cfg) \o <<"*", "/">>,
              Colors_NULL)]
    ELSE <<>>

AttrItems(cfg, obj) ==
    [k \in 1..Len(obj.attr) |->
        LET key == escapeIdent(obj.attr[k].k)
            v == obj.attr[k].v
        IN IF v = VTrue THEN c(cfg, <<"$">> \o key, Colors_ATTR)
           ELSE c(cfg, <<"$">> \o key \o <<"=">>, Colors_ATTR) \o primitiveValue(cfg, v)]

TagItems(cfg, obj) ==
    [k \in 1..Len(obj.tags) |-> c(cfg, <<"#">> \o obj.tags[k], Colors_TAG)]

\* the items of buildMetaString: comments, the required modifier, attributes, tags
MetaItems(cfg, obj) ==
    CommentItems(cfg, obj)
    \o (IF IsRequired(obj) THEN <<c(cfg, <<"$">> \o T_required, Colors_TAG)>> ELSE <<>>)
    \o (IF cfg.includeMeta THEN AttrItems(cfg, obj) \o TagItems(cfg, obj) ELSE <<>>)

\* buildMetaString once the items are collected
MetaContent(cfg, items, wrapped) ==
    LET content == Join(items, <<" ">>)
    IN IF items = <<>> THEN <<>>
       ELSE IF wrapped
       THEN (IF cfg.compact THEN <<>> ELSE <<" ">>)
            \o c(cfg, <<"/", "/">> \o Pad(cfg), Colors_SCHEMA) \o content
            \o c(cfg, Pad(cfg) \o <<"/", "/">>, Colors_SCHEMA) \o <<" ">>
       ELSE content

buildMetaString(cfg, obj, wrapped) == MetaContent(cfg, MetaItems(cfg, obj), wrapped)

metaInline(cfg, obj) == buildMetaString(cfg, obj, FALSE)

metaWrapped(cfg, obj) == buildMetaString(cfg, obj, TRUE)

\* str ? str + ' ' : ''
WithSpace(str) == IF str # <<>> THEN str \o <<" ">> ELSE <<>>

\* schemasAreCompatible(nodeSchema, expectedSchema) on heap S; 0 is null
schemasAreCompatible(S, nodeSchema, expectedSchema) ==
    IF expectedSchema = 0 \/ isAny(S[expectedSchema]) THEN TRUE
    ELSE IF nodeSchema = 0 THEN TRUE
    ELSE IF S[nodeSchema].kind # S[expectedSchema].kind THEN FALSE
    ELSE IF isPrimitive(S[nodeSchema]) /\ isPrimitive(S[expectedSchema])
    THEN S[nodeSchema].typeName = S[expectedSchema].typeName
    ELSE TRUE

\* the longest chain of distinct schemas: a deeper recursion revisits a schema and
\* never returns (RangeError: Maximum call stack size exceeded)
Diverges(S, depth) == depth > Len(S)

RECURSIVE TypeLabel(_, _, _)
\* getTypeLabel; the mark #DIVERGES stands in a label whose recursion never returns
TypeLabel(S, s, depth) ==
    IF Diverges(S, depth) THEN <<"#DIVERGES">>
    ELSE IF isPrimitive(S[s]) THEN escapeIdent(S[s].typeName)
    ELSE IF isList(S[s])
    THEN <<"[">> \o (IF S[s].element # 0 THEN TypeLabel(S, S[s].element, depth + 1)
                     ELSE T_any) \o <<"]">>
    ELSE IF isRecord(S[s]) /\ S[s].typeName # <<>> /\ S[s].typeName # T_any
    THEN escapeIdent(S[s].typeName)
    ELSE T_any

getTypeLabel(S, s) == TypeLabel(S, s, 0)

LabelDiverges(label) == \E k \in 1..Len(label) : label[k] = "#DIVERGES"

\* ------------------------------------------------------------------------
\* Encoder: schema header and data.  The encoder writes to the schemas and the
\* nodes it is given (list element meta, $size), so every method takes and returns
\* the state E = [S, N, r, parts, bad]: the heaps, the returned string, the items
\* a loop collected, and whether a recursion never returned.
\* ------------------------------------------------------------------------

NewEncoder(S, N) == [S |-> S, N |-> N, r |-> <<>>, parts |-> <<>>, bad |-> FALSE]

\* the string a callee returned, between a prefix and a suffix
Wrap(E, pre, post) == [E EXCEPT !.r = pre \o @ \o post]

\* the trimmed type a callee returned, coloured, between a prefix and a suffix
WrapType(cfg, E, pre, post) == [E EXCEPT !.r = pre \o c(cfg, Trim(@), Colors_TYPE) \o post]

\* parts.join(sep)
JoinParts(E, sep) == [E EXCEPT !.r = Join(E.parts, sep)]

RECURSIVE encodeSchema(_, _, _, _, _, _)
RECURSIVE SchemaFieldsLoop(_, _, _, _, _, _)

\* encodeSchemaFields, one field: the meta prefix and the name
SchemaFields_head(cfg, field) ==
    WithSpace(metaInline(cfg, field)) \o c(cfg, escapeIdent(field.name), Colors_KEY)

\* encodeSchemaFields, one field, once its type is encoded (in r of E1)
SchemaFields_item(cfg, E1, fields, k, parts, depth, head) ==
    LET field == fields[k]
        fieldType == Trim(E1.r)
        isStructure == ~isPrimitive(E1.S[field])
        isExplicitPrimitive == cfg.includeType /\ E1.S[field].typeName # T_any
        str == IF fieldType # <<>> /\ (isStructure \/ isExplicitPrimitive)
               THEN head \o <<":">> \o Pad(cfg) \o c(cfg, fieldType, Colors_TYPE)
               ELSE head
    IN SchemaFieldsLoop(cfg, E1, fields, k + 1, Append(parts, str), depth)

\* for (const field of schema.fields) of encodeSchemaFields
SchemaFieldsLoop(cfg, E, fields, k, parts, depth) ==
    IF k > Len(fields) \/ E.bad THEN [E EXCEPT !.parts = parts]
    ELSE SchemaFields_item(cfg, encodeSchema(cfg, E, fields[k], 0, FALSE, depth + 1),
                           fields, k, parts, depth, SchemaFields_head(cfg, E.S[fields[k]]))

encodeSchemaFields(cfg, E, s, depth) ==
    JoinParts(SchemaFieldsLoop(cfg, E, E.S[s].fields, 1, <<>>, depth), <<",">> \o Pad(cfg))

\* encodeSchema, list: the meta of the element schema moves to the list schema
encodeSchema_lift(E, s) ==
    LET el == E.S[s].element
    IN IF el # 0
       THEN [E EXCEPT !.S[s] = Schema_applyMeta(@, E.S[el]), !.S[el] = Schema_clearMeta(@)]
       ELSE E

\* encodeSchema, list, after the meta is moved
encodeSchema_list(cfg, E1, s, ind, prefix, includeMeta, depth) ==
    LET el == E1.S[s].element
        pad == Pad(cfg)
        listMeta == IF includeMeta THEN metaWrapped(cfg, E1.S[s]) ELSE <<>>
    IN IF el # 0 /\ isRecord(E1.S[el])
       THEN Wrap(encodeSchemaFields(cfg, E1, el, depth),
                 ind \o prefix \o <<"<">> \o pad \o <<"[">> \o listMeta,
                 pad \o <<"]">> \o pad \o <<">">>)
       ELSE WrapType(cfg, encodeSchema(cfg, E1, el, 0, FALSE, depth + 1),
                     ind \o <<"[">> \o listMeta, <<"]">>)

encodeSchema(cfg, E, s, indent, includeMeta, depth) ==
    IF s = 0 THEN [E EXCEPT !.r = <<>>]
    ELSE IF Diverges(E.S, depth) THEN [E EXCEPT !.r = <<>>, !.bad = TRUE]
    ELSE
    LET ind == Spaces(indent)
        pad == Pad(cfg)
        sc == E.S[s]
        prefix == IF sc.typeName # <<>> /\ isRecord(sc) /\ ~isAny(sc)
                  THEN c(cfg, <<"@">> \o escapeIdent(sc.typeName), Colors_SCHEMA)
                  ELSE <<>>
        meta == IF includeMeta THEN metaWrapped(cfg, sc) ELSE <<>>
    IN
    IF isPrimitive(sc)
    THEN [E EXCEPT !.r = ind \o WithSpace(IF includeMeta THEN metaInline(cfg, sc) ELSE <<>>)
                         \o c(cfg, escapeIdent(sc.typeName), Colors_TYPE)]
    ELSE IF isList(sc)
    THEN encodeSchema_list(cfg, encodeSchema_lift(E, s), s, ind, prefix, includeMeta, depth)
    ELSE IF isRecord(sc)
    THEN IF sc.fields = <<>>
         THEN IF prefix = <<>> /\ meta = <<>> /\ isAny(sc)
              THEN [E EXCEPT !.r = <<>>]
              ELSE [E EXCEPT !.r = ind \o prefix \o <<"<">> \o pad \o meta
                                   \o T_any \o pad \o <<">">>]
         ELSE Wrap(encodeSchemaFields(cfg, E, s, depth),
                   ind \o prefix \o <<"<">> \o pad \o meta, pad \o <<">">>)
    ELSE [E EXCEPT !.r = ind \o <<"<">> \o meta \o T_any \o <<">">>]

\* `${tag} ${valStr}` for a node whose schema is not the expected one
TypeTagged(cfg, E, valStr, nodeSchema) ==
    LET label == IF nodeSchema # 0 THEN getTypeLabel(E.S, nodeSchema) ELSE T_any
        tag == c(cfg, <<"<">> \o label \o <<">">>, Colors_SCHEMA)
    IN [E EXCEPT !.r = tag \o <<" ">> \o valStr, !.bad = @ \/ LabelDiverges(label)]

applyTypeTag(cfg, E, valStr, nodeSchema, expectedSchema) ==
    IF schemasAreCompatible(E.S, nodeSchema, expectedSchema) THEN [E EXCEPT !.r = valStr]
    ELSE TypeTagged(cfg, E, valStr, nodeSchema)

\* applyTypeTag(encode(child).trim(), child.schema, expected) for the child whose
\* encoding is in r of E1
applyTypeTag_child(cfg, E1, child, expected) ==
    applyTypeTag(cfg, E1, Trim(E1.r), E1.N[child].schema, expected)

encodePrimitiveNode(cfg, nd) ==
    WithSpace(metaInline(cfg, nd)) \o primitiveValue(cfg, nd.value)

RECURSIVE Encoder_encode(_, _, _, _, _)
RECURSIVE ListItemsLoop(_, _, _, _, _, _, _)
RECURSIVE RecordPartsLoop(_, _, _, _, _, _, _)

\* encodeList, one element, once it is encoded and tagged (in r of E2)
ListItems_item(cfg, E2, els, k, items, expectedChild, lead) ==
    ListItemsLoop(cfg, E2, els, k + 1, Append(items, lead \o E2.r), expectedChild, lead)

\* for (const el of node.elements) of encodeList, in either mode
ListItemsLoop(cfg, E, els, k, items, expectedChild, lead) ==
    IF k > Len(els) \/ E.bad THEN [E EXCEPT !.parts = items]
    ELSE ListItems_item(
             cfg,
             applyTypeTag_child(cfg, Encoder_encode(cfg, E, els[k], 0, FALSE),
                                els[k], expectedChild),
             els, k, items, expectedChild, lead)

\* encodeList: the brackets around the items (in parts of L)
encodeList_join(cfg, L, indent, innerMeta, schemaHeader) ==
    LET ind == Spaces(indent)
        childInd == Spaces(indent + cfg.indent)
        metaLine == IF innerMeta # <<>> THEN childInd \o Trim(innerMeta) \o <<"\n">>
                    ELSE <<>>
        headerLine == IF schemaHeader # <<>> THEN childInd \o Trim(schemaHeader) \o <<"\n">>
                      ELSE <<>>
        body == IF L.parts # <<>> THEN Join(L.parts, <<",", "\n">>) \o <<"\n">> ELSE <<>>
    IN IF cfg.compact
       THEN [L EXCEPT !.r = ind \o <<"[">> \o innerMeta \o schemaHeader
                            \o Join(L.parts, <<",">>) \o <<"]">>]
       ELSE [L EXCEPT !.r = ind \o <<"[", "\n">> \o metaLine \o headerLine \o body
                            \o ind \o <<"]">>]

\* encodeList once the header of the element schema is encoded (in r of H)
encodeList_items(cfg, H, n, indent) ==
    LET sch == H.N[n].schema
    IN encodeList_join(
           cfg,
           ListItemsLoop(cfg, H, H.N[n].elements, 1, <<>>,
                         IF sch # 0 THEN H.S[sch].element ELSE 0,
                         IF cfg.compact THEN <<>> ELSE Spaces(indent + cfg.indent)),
           indent, metaWrapped(cfg, H.N[n]), WithSpace(Trim(H.r)))

\* encodeList after the $size attribute is set
encodeList_header(cfg, E, n, indent, includeSchema) ==
    LET sch == E.N[n].schema
    IN encodeList_items(
           cfg,
           IF includeSchema /\ sch # 0 /\ E.S[sch].element # 0
           THEN encodeSchema(cfg, E, E.S[sch].element, 0, TRUE, 0)
           ELSE [E EXCEPT !.r = <<>>],
           n, indent)

encodeList(cfg, E0, n, indent, includeSchema) ==
    encodeList_header(
        cfg,
        IF cfg.includeArraySize
        THEN [E0 EXCEPT !.N[n].attr = MapSet(@, T_size, VNum(Len(E0.N[n].elements)))]
        ELSE E0,
        n, indent, includeSchema)

\* encodeRecord, one field, once it is encoded and tagged (in r of E2)
RecordParts_item(cfg, E2, n, fields, k, parts, indent) ==
    RecordPartsLoop(cfg, E2, n, fields, k + 1, Append(parts, E2.r), indent)

\* a lookup that finds no child
RecordParts_node_none(E, n, fields, k) == 0

\* the node of the k-th field of the schema, or 0
RecordParts_node(E, n, fields, k) == MapGet(E.N[n].fields, E.S[fields[k]].name)

\* for (const fieldDef of node.schema.fields) of encodeRecord
RecordPartsLoop(cfg, E, n, fields, k, parts, indent) ==
    IF k > Len(fields) \/ E.bad THEN [E EXCEPT !.parts = parts]
    ELSE IF RecordParts_node(E, n, fields, k) # 0
    THEN RecordParts_item(
             cfg,
             applyTypeTag_child(
                 cfg,
                 Encoder_encode(cfg, E, RecordParts_node(E, n, fields, k),
                                indent - cfg.startIndent, FALSE),
                 RecordParts_node(E, n, fields, k), fields[k]),
             n, fields, k, parts, indent)
    ELSE RecordPartsLoop(cfg, E, n, fields, k + 1,
                         Append(parts, c(cfg, T_null, Colors_NULL)), indent)

encodeRecord(cfg, E, n, indent) ==
    LET innerMeta == metaWrapped(cfg, E.N[n])
        fields == E.S[E.N[n].schema].fields
    IN IF fields # <<>>
       THEN Wrap(JoinParts(RecordPartsLoop(cfg, E, n, fields, 1, <<>>, indent),
                           IF cfg.compact THEN <<",">> ELSE <<",", " ">>),
                 <<"(">> \o innerMeta, <<")">>)
       ELSE [E EXCEPT !.r = <<"(">> \o innerMeta \o c(cfg, T_null, Colors_NULL) \o <<")">>]

\* Encoder.encode once the schema header is encoded (in r of H): the prefix it
\* makes and the data of the node
Encoder_encode_data(cfg, H, n, baseIndent) ==
    LET sch == H.N[n].schema
        trimmed == Trim(H.r)
        sTxt == IF trimmed # <<>> /\ ~StartsWith(trimmed, "<") /\ ~StartsWith(trimmed, "@")
                THEN <<"<">> \o trimmed \o <<">">> ELSE trimmed
        schemaPrefix == IF sTxt = <<>> THEN <<>>
                        ELSE IF cfg.compact THEN sTxt
                        ELSE sTxt \o <<"\n">> \o Spaces(baseIndent)
    IN Wrap(IF H.bad THEN H
            ELSE IF sch # 0 /\ isList(H.S[sch]) THEN encodeList(cfg, H, n, baseIndent, FALSE)
            ELSE IF sch # 0 /\ isPrimitive(H.S[sch])
            THEN [H EXCEPT !.r = encodePrimitiveNode(cfg, H.N[n])]
            ELSE IF sch # 0 /\ isRecord(H.S[sch]) THEN encodeRecord(cfg, H, n, baseIndent)
            ELSE [H EXCEPT !.r = c(cfg, T_null, Colors_NULL)],
            schemaPrefix, <<>>)

\* Encoder.encode(node, indentLevel, includeSchema)
Encoder_encode(cfg, E, n, indentLevel, includeSchema) ==
    Encoder_encode_data(
        cfg,
        IF includeSchema /\ E.N[n].schema # 0 /\ cfg.includeSchema
        THEN encodeSchema(cfg, E, E.N[n].schema, cfg.startIndent + indentLevel, TRUE, 0)
        ELSE [E EXCEPT !.r = <<>>],
        n, cfg.startIndent + indentLevel)

\* ------------------------------------------------------------------------
\* Node builder (parseDataToNode) over plain values.  A plain value is
\* [k, v, items, keys]: k is "prim", "list" or "dict"; v the Primitive; items the
\* elements of an array or the values of an object, keys the object's keys in
\* insertion order.  The builder state is B = [S, N, rId].
\* ------------------------------------------------------------------------

PPrim(v) == [k |-> "prim", v |-> v, items |-> <<>>, keys |-> <<>>]
PList(items) == [k |-> "list", v |-> VNull, items |-> items, keys |-> <<>>]
PDict(keys, items) == [k |-> "dict", v |-> VNull, items |-> items, keys |-> keys]

NewBuilder == [S |-> <<>>, N |-> <<>>, rId |-> 0]

TypeOfPrimitive(v) ==
    CASE v.t = "str" -> T_string
      [] v.t = "bool" -> T_bool
      [] v.t = "num" -> T_number
      [] OTHER -> T_null

Builder_parsePrimitive(B, v) ==
    LET B1 == AllocSchema(B, NewSchema("PRIMITIVE", TypeOfPrimitive(v)))
    IN AllocNode(B1, NewNode(B1.rId, v))

RECURSIVE parseDataToNode(_, _)
RECURSIVE BuildItems(_, _, _, _)
RECURSIVE UnifyFields(_, _, _, _)
RECURSIVE UnifyItems(_, _, _, _)
RECURSIVE DictLoop(_, _, _, _, _)

\* arr.map(v => parseDataToNode(v)); the nodes are returned in register rId as a
\* sequence
BuildItems(B, items, k, nodes) ==
    IF k > Len(items) THEN [B EXCEPT !.rId = nodes]
    ELSE LET B1 == parseDataToNode(B, items[k])
         IN BuildItems(B1, items, k + 1, Append(nodes, B1.rId))

\* for (const field of item.schema.fields) of parseList
UnifyFields(S, unified, fields, k) ==
    IF k > Len(fields) THEN S
    ELSE IF MapHas(S[unified].fmap, S[fields[k]].name) THEN UnifyFields(S, unified, fields, k + 1)
    ELSE UnifyFields(addField(S, unified, fields[k]), unified, fields, k + 1)

\* for (const item of parsedItems) of parseList
UnifyItems(B, unified, nodes, k) ==
    IF k > Len(nodes) THEN B
    ELSE LET sch == B.N[nodes[k]].schema
         IN IF B.S[sch].kind = "RECORD"
            THEN UnifyItems([B EXCEPT !.S = UnifyFields(@, unified, B.S[sch].fields, 1)],
                            unified, nodes, k + 1)
            ELSE UnifyItems(B, unified, nodes, k + 1)

Builder_parseList(B, arr) ==
    IF arr = <<>>
    THEN LET B1 == AllocSchema(B, NewSchema("PRIMITIVE", T_any))
             B2 == AllocSchema(B1, [NewSchema("LIST", <<>>) EXCEPT !.element = B1.rId])
         IN AllocNode(B2, NewNode(B2.rId, VNull))
    ELSE LET B1 == BuildItems(B, arr, 1, <<>>)
             parsedItems == B1.rId
             firstSchema == B1.N[parsedItems[1]].schema
             B2 == IF B1.S[firstSchema].kind = "RECORD"
                   THEN LET U == AllocSchema(B1, NewSchema("RECORD", T_record))
                        IN [UnifyItems(U, U.rId, parsedItems, 1) EXCEPT !.rId = U.rId]
                   ELSE [B1 EXCEPT !.rId = firstSchema]
             B3 == AllocSchema(B2, [NewSchema("LIST", T_list) EXCEPT !.element = B2.rId])
         IN AllocNode(B3, [NewNode(B3.rId, VNull) EXCEPT !.elements = parsedItems])

\* for (const [key, rawValue] of Object.entries(obj)) of parseDict
DictLoop(B, schema, obj, k, fieldsData) ==
    IF k > Len(obj.keys) THEN [B EXCEPT !.rId = fieldsData]
    ELSE LET key == obj.keys[k]
             B1 == parseDataToNode(B, obj.items[k])
             childNode == B1.rId
             cs == B1.N[childNode].schema
             B2 == [B1 EXCEPT !.S = addField([@ EXCEPT ![cs].name = key], schema, cs)]
         IN DictLoop(B2, schema, obj, k + 1, MapSet(fieldsData, key, childNode))

Builder_parseDict(B, obj) ==
    LET B1 == AllocSchema(B, NewSchema("RECORD", <<>>))
        schema == B1.rId
        B2 == DictLoop(B1, schema, obj, 1, <<>>)
    IN AllocNode(B2, [NewNode(schema, VNull) EXCEPT !.fields = B2.rId])

parseDataToNode(B, value) ==
    CASE value.k = "prim" -> Builder_parsePrimitive(B, value.v)
      [] value.k = "list" -> Builder_parseList(B, value.items)
      [] OTHER -> Builder_parseDict(B, value)

\* ------------------------------------------------------------------------
\* Node.dict() and the public entry points of index.ts
\* ------------------------------------------------------------------------

RECURSIVE Node_dict(_, _, _)
Node_dict(S, N, n) ==
    LET sch == N[n].schema IN
    IF sch # 0 /\ isPrimitive(S[sch]) THEN PPrim(N[n].value)
    ELSE IF sch # 0 /\ isList(S[sch])
    THEN PList([k \in 1..Len(N[n].elements) |-> Node_dict(S, N, N[n].elements[k])])
    ELSE IF sch # 0 /\ isRecord(S[sch])
    THEN PDict([k \in 1..Len(N[n].fields) |-> N[n].fields[k].k],
               [k \in 1..Len(N[n].fields) |-> Node_dict(S, N, N[n].fields[k].v)])
    ELSE PPrim(N[n].value)

\* encode(node, config) for a Node of heaps S, N: the final encoder state
encodeRoot(cfg, S, N, n) == Encoder_encode(cfg, NewEncoder(S, N), n, 0, TRUE)

\* encode(data, config) for a plain value
encode_node(cfg, B) == encodeRoot(cfg, B.S, B.N, B.rId)

encode(value, cfg) == encode_node(cfg, parseDataToNode(NewBuilder, value))

\* ------------------------------------------------------------------------
\* Inputs
\* ------------------------------------------------------------------------

\* longest generated text, in fragments
MaxFrags == 3
\* longest generated list, in elements
MaxElems == 3
\* largest array or object of a generated plain value
MaxItems == 2
\* most error conditions, and most warnings, one generated text raises
MaxBad == 100

SeqsUpTo(F, n) == UNION {[1..k -> F] : k \in 1..n}

Fragments ==
    {<<"[">>, <<"]">>, <<"(">>, <<")">>, <<",">>, <<"1">>, <<"\"", "a", "\"">>,
     <<"a">>, <<"/">>}

FragmentTexts == {Join(f, <<>>) : f \in SeqsUpTo(Fragments, MaxFrags)}

\* texts of the documentation and of the test suites
SampleTexts ==
    {<<"[","]">>,
     <<"(",")">>,
     <<"{","}">>,
     <<"{","a",":","1",",","b",":","\"","x","\"","}">>,
     <<"<","a",":","i","n","t",",","b",":","s","t","r","i","n","g",">","(","1",",","\"","x","\"",")">>,
     <<"@","L","<","[","a","n","y","]",">","@","L","[","@","L","[","]","]">>,
     <<"[","[","1","]",",","[","\"","a","\"","]","]">>,
     <<"["," ","/","/"," ","$","a","=","1"," ","/","/"," ","1",","," ","2"," ","]">>,
     <<"["," ","1"," ","/","/"," ","$","a","=","1"," ","/","/"," ",","," ","2"," ","]">>,
     <<"/"," ","1"," ","/">>,
     <<"[","/"," ","$","a","=","1"," ","/"," ","1","]">>,
     <<"<","[","i","n","t","]",">","[","1",",","2","]">>,
     <<"@","U","<","i","d",":","i","n","t",">","[","(","1",")",",","(","2",")","]">>,
     <<"<","x",":","[","i","n","t","]",">","{","x",":","[","1","]","}">>,
     <<"[","1",",","\"","a","\"",",","t","r","u","e",",","n","u","l","l","]">>,
     <<"{","\"","k","\"",":","-","5","}">>,
     <<"/","*"," ","c"," ","*","/"," ","5">>,
     <<"@","T","<","a",":","i","n","t",">"," ","@","T","(","1",")">>,
     <<"["," ","{","a",":","1","}",","," ","{","b",":","2","}"," ","]">>,
     <<"\"","x","\\","\"","y","\\","n","\"">>,
     <<"(","1",","," ","?",")">>,
     <<"[","1",","," ","2",","," ","3">>,
     <<"!","a"," ","1"," ","#","b">>}

ListElems ==
    {<<"1">>, <<"\"", "a", "\"">>, <<"t", "r", "u", "e">>, <<"n", "u", "l", "l">>,
     <<"(", ")">>, <<"(", "1", ")">>, <<"[", "1", "]">>}

\* the lists without a schema header, closed or not
ListBodies == {Join(f, <<",">>) : f \in SeqsUpTo(ListElems, MaxElems)}
ListTexts == {<<"[">> \o b \o <<"]">> : b \in ListBodies}
UnclosedListTexts == {<<"[">> \o b : b \in ListBodies \cup {<<>>}}

\* containers with inline metadata behind a child (at 1 or 2) or, without
\* children, inside the container (at 0)
TrailKinds == {"list", "positional", "named"}
TrailTokens == {<<"$", "a", "=", "1">>, <<"#", "t">>, <<"/", "*", "c", "*", "/">>}
TrailCases == [kind : TrailKinds, tok : TrailTokens, at : 0..2]

TrailOpen(kind) ==
    CASE kind = "list" -> <<"[">> [] kind = "positional" -> <<"(">> [] OTHER -> <<"{">>
TrailClose(kind) ==
    CASE kind = "list" -> <<"]">> [] kind = "positional" -> <<")">> [] OTHER -> <<"}">>
TrailChild(kind, k) ==
    (IF kind = "named" THEN <<(IF k = 1 THEN "x" ELSE "y"), ":">> ELSE <<>>)
        \o <<(IF k = 1 THEN "1" ELSE "2")>>

TrailText(cs) ==
    IF cs.at = 0 THEN TrailOpen(cs.kind) \o <<" ">> \o cs.tok \o <<" ">> \o TrailClose(cs.kind)
    ELSE TrailOpen(cs.kind)
           \o TrailChild(cs.kind, 1) \o (IF cs.at = 1 THEN <<" ">> \o cs.tok ELSE <<>>)
           \o <<",">>
           \o TrailChild(cs.kind, 2) \o (IF cs.at = 2 THEN <<" ">> \o cs.tok ELSE <<>>)
           \o TrailClose(cs.kind)

TrailTexts == {TrailText(cs) : cs \in TrailCases}

\* names written between backticks: a record key, an attribute key, a field name
\* and a schema name
BacktickKeyText == <<"{", Backtick, "a", " ", "b", Backtick, ":", "1", "}">>
BacktickAttrText == <<"[", "$", Backtick, "k", "*", Backtick, "=", "1", " ", "1", "]">>
BacktickFieldText == <<"<", Backtick, "a", " ", "b", Backtick, ":", "n", "u", "m", "b", "e", "r", ">", "(", "1", ")">>
BacktickTypeText == <<"@", Backtick, "T", "+", Backtick, "<", "a", ":", "n", "u", "m", "b", "e", "r", ">", "(", "1", ")">>
BacktickTexts == {BacktickKeyText, BacktickAttrText, BacktickFieldText, BacktickTypeText}

\* named types: a type that mentions itself, a type mentioned by two fields, and
\* a type name defined twice
NumberWord == <<"n", "u", "m", "b", "e", "r">>
StringWord == <<"s", "t", "r", "i", "n", "g">>
SelfRefText ==
    <<"@", "T", "<", "a", ":">> \o NumberWord \o <<",", "n", ":", "@", "T", ">", "(", "1", ",", "n", "u", "l", "l", ")">>
TwoRefText ==
    <<"@", "T", "<", "a", ":">> \o NumberWord
        \o <<">", "<", "x", ":", "@", "T", ",", "y", ":", "@", "T", ">", "(", "(", "1", ")", ",", "(", "2", ")", ")">>
TwiceDefinedText ==
    <<"@", "T", "<", "a", ":">> \o NumberWord \o <<">", "@", "T", "<", "b", ":">> \o StringWord
        \o <<">", "@", "T", "(", "\"", "x", "\"", ")">>
NamedTexts == {SelfRefText, TwoRefText, TwiceDefinedText}

\* records under a header: a named record that leaves fields out, a positional
\* record that is too short, and a named record with its keys in another order
HeaderAB == <<"<", "a", ":">> \o NumberWord \o <<",", "b", ":">> \o NumberWord \o <<">">>
MissingFieldsText ==
    <<"<", "a", ":">> \o NumberWord \o <<",", "b", ":">> \o StringWord
        \o <<",", "c", ":", "b", "o", "o", "l", ">", "{", "b", ":", "\"", "x", "\"", "}">>
ShortRecordText == HeaderAB \o <<"(", "1", ")">>
ReorderedText == HeaderAB \o <<"{", "b", ":", "2", ",", "a", ":", "1", "}">>
RecordTexts == {MissingFieldsText, ShortRecordText, ReorderedText}

\* named records whose values meet an untyped field, no field, a typed field of
\* another type, and a list field
UntypedFieldText ==
    <<"<", "a", ",", "b", ":">> \o NumberWord \o <<">", "{", "b", ":", "2", ",", "a", ":", "\"", "x", "\"", "}">>
NoFieldText == <<"<", "a", ":">> \o NumberWord \o <<">", "{", "b", ":", "2", ",", "a", ":", "1", "}">>
TypedFieldText == <<"<", "a", ":">> \o NumberWord \o <<">", "{", "a", ":", "\"", "x", "\"", "}">>
ListFieldText == <<"<", "a", ":", "[">> \o NumberWord \o <<"]", ">", "{", "a", ":", "(", "1", ")", "}">>
FieldTexts == {UntypedFieldText, NoFieldText, TypedFieldText, ListFieldText}

\* headers and data that disagree: a tagged element type of a list field that gets
\* no value, a record header in front of a list, and records whose only child is
\* a list
ElementMetaText == <<"<", "a", ":", "[", "#", "t", " ">> \o NumberWord \o <<"]", ">", "(", ")">>
FieldsThenListText == <<"<", "a", ":">> \o NumberWord \o <<">", "[", "1", "]">>
InferredListTexts == {<<"(", "[", "1", "]", ")">>, <<"{", "a", ":", "[", "1", "]", "}">>}
SchemaTexts == {ElementMetaText, FieldsThenListText} \cup InferredListTexts

\* documents that end inside a list, a positional record, a named record and a
\* schema body
TruncatedTexts ==
    {<<"[", "1">>, <<"(", "1">>, <<"{", "a", ":", "1">>, <<"<", "a", ":">> \o NumberWord}

Texts ==
    FragmentTexts \cup ListTexts \cup SampleTexts \cup TrailTexts \cup BacktickTexts
      \cup NamedTexts \cup RecordTexts \cup FieldTexts \cup SchemaTexts \cup TruncatedTexts

Configs == {CompactConfig, DEFAULT_CONFIG}

Atoms == {VNull, VBool(TRUE), VNum(1), VStr(<<"a">>)}
KeySeqs == {k \in SeqsUpTo({<<"a">>, <<"b">>}, MaxItems) :
                \A p, q \in 1..Len(k) : p # q => k[p] # k[q]}
Compose(V) ==
    V \cup {PList(<<>>), PDict(<<>>, <<>>)}
      \cup {PList(items) : items \in SeqsUpTo(V, MaxItems)}
      \cup UNION {{PDict(k, items) : items \in [1..Len(k) -> V]} : k \in KeySeqs}
PlainAtoms == {PPrim(a) : a \in Atoms}
PlainValues == Compose(Compose(PlainAtoms))

\* the texts that raise up to MaxBad warnings, then up to MaxBad errors: w flags
\* the decoder does not know, then a record of k characters that start no value
Rep(ch, n) == [j \in 1..n |-> ch]
BadCounts == {0, 1, MaxBad \div 2, MaxBad}
DiagTexts ==
    {Rep("!", w) \o <<"(">> \o Rep("?", k) \o close :
        w \in BadCounts, k \in BadCounts, close \in {<<>>, <<")">>}}

\* the characters that start no value and no metadata
BadChars == {"?", "=", "]"}
BadRecordTexts ==
    {<<"(">> \o Join(f, <<",">>) \o <<")">> :
        f \in SeqsUpTo({<<"1">>} \cup {<<b>> : b \in BadChars}, MaxElems)}

\* the quoted strings that end right after a backslash
BackslashTexts ==
    {<<"\"">> \o Join(f, <<>>) \o <<"\\">> :
        f \in SeqsUpTo({<<"a">>, <<" ">>, <<"\\", "n">>}, MaxElems)} \cup {<<"\"", "\\">>}

\* the encoder's colorized output for a scalar, and an escape sequence inside a
\* quoted string and behind the root value
ColorConfig == [CompactConfig EXCEPT !.colorize = TRUE]
ColorizedTexts == {encode(v, ColorConfig).r : v \in PlainAtoms}
QuotedAnsiTexts == {<<"\"", "ESC", "[", "0", "m", "\"">>, <<"1", " ", "ESC", "[", "0", "m">>}

StepTexts ==
    DiagTexts \cup BadRecordTexts \cup UnclosedListTexts \cup BackslashTexts
      \cup ColorizedTexts \cup QuotedAnsiTexts

\* ------------------------------------------------------------------------
\* The state machine.  phase is the position of the caller: a text or a plain
\* value goes through decode and encode of index.ts; in the stepwise
\* specification the phases meta, root, record and finish are the positions inside
\* Decoder.decode.  res and res2 are DecodeResults with the decoder that made
\* them, enc and enc2 encoder states with the text returned in r, plain the result
\* of Node.dict(), loc the locals of decode and parsePositionalRecord.
\* ------------------------------------------------------------------------

VARIABLES phase, text, value, cfg, res, loc, enc, res2, enc2, plain
vars == <<phase, text, value, cfg, res, loc, enc, res2, enc2, plain>>

NoResult == [D |-> NewDecoder(<<>>), root |-> 0, rootSchema |-> 0]
NoLocals == [ctx |-> 0, node |-> 0, fields |-> <<>>, index |-> 0, valNode |-> 0]
NoOutput == NewEncoder(<<>>, <<>>)
NoValue == PPrim(VNull)

\* where the caller is after a decode: a decode that loops forever never returns,
\* a thrown Error leaves decode
AfterDecode(r, ok) == IF r.D.stuck THEN "hung" ELSE IF r.D.exc THEN "threw" ELSE ok

\* where the caller is after an encode: unbounded recursion ends in a RangeError
AfterEncode(E, ok) == IF E.bad THEN "overflow" ELSE ok

\* encode mutates the schemas and nodes it is given
Mutated(r, E) == IF E.bad THEN r ELSE [r EXCEPT !.D.S = E.S, !.D.N = E.N]

InitText ==
    /\ phase = "input" /\ text \in Texts /\ cfg \in Configs
    /\ value = NoValue /\ res = NoResult /\ loc = NoLocals /\ enc = NoOutput
    /\ res2 = NoResult /\ enc2 = NoOutput /\ plain = NoValue

\* decode(text)
Decode ==
    /\ phase = "input"
    /\ res' = decode(text)
    /\ phase' = AfterDecode(res', "decoded")
    /\ UNCHANGED <<text, value, cfg, loc, enc, res2, enc2, plain>>

\* encode(result.node, cfg)
Encode ==
    /\ phase = "decoded"
    /\ enc' = encodeRoot(cfg, res.D.S, res.D.N, res.root)
    /\ res' = Mutated(res, enc')
    /\ phase' = AfterEncode(enc', "encoded")
    /\ UNCHANGED <<text, value, cfg, loc, res2, enc2, plain>>

\* decode(t) of the encoded text t
Redecode ==
    /\ phase = "encoded"
    /\ res2' = decode(enc.r)
    /\ phase' = AfterDecode(res2', "redecoded")
    /\ UNCHANGED <<text, value, cfg, res, loc, enc, enc2, plain>>

\* encode(decode(t).node, cfg)
Reencode ==
    /\ phase = "redecoded"
    /\ enc2' = encodeRoot(cfg, res2.D.S, res2.D.N, res2.root)
    /\ res2' = Mutated(res2, enc2')
    /\ phase' = AfterEncode(enc2', "reencoded")
    /\ UNCHANGED <<text, value, cfg, res, loc, enc, plain>>

\* result.node.dict()
DictOfDecoded ==
    /\ phase = "decoded"
    /\ plain' = Node_dict(res.D.S, res.D.N, res.root)
    /\ phase' = "plain"
    /\ UNCHANGED <<text, value, cfg, res, loc, enc, res2, enc2>>

Next == Decode \/ Encode \/ Redecode \/ Reencode \/ DictOfDecoded
Spec == InitText /\ [][Next]_vars

\* lists without a schema header, decoded and encoded
\* { compact: true, includeArraySize: true }
SizeConfig == [CompactConfig EXCEPT !.includeArraySize = TRUE]

InitLists ==
    /\ phase = "input" /\ text \in ListTexts /\ cfg \in Configs \cup {SizeConfig}
    /\ value = NoValue /\ res = NoResult /\ loc = NoLocals /\ enc = NoOutput
    /\ res2 = NoResult /\ enc2 = NoOutput /\ plain = NoValue
NextLists == Decode \/ Encode
SpecLists == InitLists /\ [][NextLists]_vars

\* plain values: encode(value, cfg), decode of the text, then either a second
\* encode or Node.dict()
InitValues ==
    /\ phase = "value" /\ value \in PlainValues /\ cfg \in Configs
    /\ text = <<>> /\ res = NoResult /\ loc = NoLocals /\ enc = NoOutput
    /\ res2 = NoResult /\ enc2 = NoOutput /\ plain = NoValue

EncodeValue ==
    /\ phase = "value"
    /\ enc' = encode(value, cfg)
    /\ phase' = AfterEncode(enc', "encoded")
    /\ UNCHANGED <<text, value, cfg, res, loc, res2, enc2, plain>>

\* decode(t).node.dict()
ToDict ==
    /\ phase = "redecoded"
    /\ plain' = Node_dict(res2.D.S, res2.D.N, res2.root)
    /\ phase' = "dicted"
    /\ UNCHANGED <<text, value, cfg, res, loc, enc, res2, enc2>>

NextValues == EncodeValue \/ Redecode \/ Reencode \/ ToDict
SpecValues == InitValues /\ [][NextValues]_vars

\* Decoder.decode step by step: the decoder is constructed, each iteration of
\* the leading parseMeta and of the root record's loop is one step
InitSteps ==
    /\ phase = "meta" /\ text \in StepTexts /\ cfg = CompactConfig
    /\ res = [NoResult EXCEPT !.D = NewDecoder(text)]
    /\ value = NoValue /\ loc = NoLocals /\ enc = NoOutput
    /\ res2 = NoResult /\ enc2 = NoOutput /\ plain = NoValue

\* one iteration of the parseMeta at the head of decode
MetaStep ==
    /\ phase = "meta"
    /\ res' = [res EXCEPT !.D = IF eof(res.D) THEN res.D
                                ELSE parseMetaIter(res.D, "none", 0)]
    /\ phase' = IF eof(res.D) THEN "root"
                ELSE IF res'.D.stuck THEN "hung"
                ELSE IF res'.D.rB THEN "meta" ELSE "root"
    /\ UNCHANGED <<text, value, cfg, loc, enc, res2, enc2, plain>>

\* the root node of decode after the parseMeta of parseNode (H): at the end of
\* the text a null node, a positional record up to its loop, any other node as
\* a whole
RootStart_node(H, atEnd) ==
    IF atEnd THEN [D |-> createNode(H, VNull), at |-> "finish"]
    ELSE IF ~H.stuck /\ peek(H) = "(" THEN [D |-> PositionalStart(H), at |-> "record"]
    ELSE [D |-> parseNode_at(H), at |-> "node"]

RootStart_to(R, ctx) ==
    /\ res' = [res EXCEPT !.D = R.D, !.root = R.D.rId]
    /\ loc' = IF R.at = "record"
              THEN [ctx |-> ctx, node |-> R.D.rId, fields |-> PredefinedFields(R.D),
                    index |-> 0, valNode |-> 0]
              ELSE [loc EXCEPT !.ctx = ctx]
    /\ phase' = IF R.at = "node" THEN AfterDecode(R, "finish") ELSE R.at

\* decode once the root schema context is known (in rId of C)
RootStart_from(C) == RootStart_to(RootStart_node(parseMetaCurrentNode(C), eof(C)), C.rId)

\* decode from the schema prologue to the root node
RootStart ==
    /\ phase = "root"
    /\ RootStart_from(DecodeRootContext(res.D))
    /\ UNCHANGED <<text, value, cfg, enc, res2, enc2, plain>>

\* the root record is returned to parseNode, which applies pending meta
RecordEnd(D) == applyMetaN(SetRId(D, loc.node), loc.node)

RecordStep_to(R) ==
    /\ loc' = [loc EXCEPT !.index = R.index, !.valNode = R.valNode]
    /\ res' = [res EXCEPT !.D = IF R.go THEN R.D ELSE RecordEnd(R.D)]
    /\ phase' = IF R.go THEN "record" ELSE AfterDecode(R, "finish")

\* one iteration of the loop of parsePositionalRecord for the root record
RecordStep ==
    /\ phase = "record"
    /\ IF eof(res.D)
       THEN res' = [res EXCEPT !.D = RecordEnd(res.D)] /\ loc' = loc /\ phase' = "finish"
       ELSE RecordStep_to(PositionalIter(res.D, loc.node, loc.fields, loc.index, loc.valNode))
    /\ UNCHANGED <<text, value, cfg, enc, res2, enc2, plain>>

\* the rest of decode after the root node
Finish ==
    /\ phase = "finish"
    /\ res' = DecodeFinish(res.D, loc.ctx, res.root)
    /\ phase' = AfterDecode(res', "done")
    /\ UNCHANGED <<text, value, cfg, loc, enc, res2, enc2, plain>>

NextSteps == MetaStep \/ RootStart \/ RecordStep \/ Finish
SpecSteps == InitSteps /\ [][NextSteps]_vars

\* string values: encode(s, cfg), then decode of the quoted text
MaxChars == 3
StringChars == {"a", "n", "\"", "\\", "\n", "\r", "\t"}
StringValues == {PPrim(VStr(<<>>))} \cup {PPrim(VStr(w)) : w \in SeqsUpTo(StringChars, MaxChars)}
EscapeConfig == [CompactConfig EXCEPT !.escapeNewLines = TRUE]

InitStrings ==
    /\ phase = "value" /\ value \in StringValues /\ cfg \in {CompactConfig, EscapeConfig}
    /\ text = <<>> /\ res = NoResult /\ loc = NoLocals /\ enc = NoOutput
    /\ res2 = NoResult /\ enc2 = NoOutput /\ plain = NoValue
SpecStrings == InitStrings /\ [][NextValues]_vars

\* createNode on its own: a decoder whose schema stack is empty or holds one
\* context schema (heap index 1), with or without pending metadata, creates the
\* node of a scalar
ContextKinds == {"ANY", "PRIMITIVE", "RECORD", "LIST"}
ContextTypeNames == {T_any, T_string, T_number, T_bool, T_null, T_int, T_float}
Scalars == {VNull, VBool(TRUE), VBool(FALSE), VNum(1), VStr(<<>>), VStr(<<"a">>)}
PendingMetas == {EmptyMeta, [EmptyMeta EXCEPT !.tags = <<<<"t">>>>]}

WithContext(D, sc) == pushSchema_rId(AllocSchema(D, sc))

InitCreate ==
    /\ phase = "context" /\ text = <<>> /\ cfg = CompactConfig
    /\ \E v \in Scalars : value = PPrim(v)
    /\ \E pm \in PendingMetas :
          \/ res = [NoResult EXCEPT !.D.pend = pm]
          \/ \E kind \in ContextKinds, tn \in ContextTypeNames :
                res = [NoResult EXCEPT !.D = WithContext([@ EXCEPT !.pend = pm], NewSchema(kind, tn))]
    /\ loc = NoLocals /\ enc = NoOutput /\ res2 = NoResult /\ enc2 = NoOutput /\ plain = NoValue

\* this.createNode(value)
CreateNode ==
    /\ phase = "context"
    /\ res' = [res EXCEPT !.D = createNode(@, value.v), !.root = createNode(res.D, value.v).rId]
    /\ phase' = "created"
    /\ UNCHANGED <<text, value, cfg, loc, enc, res2, enc2, plain>>

SpecCreate == InitCreate /\ [][CreateNode]_vars

\* ------------------------------------------------------------------------
\* The Schema object on its own: one target schema (heap index 1) and a pool of
\* field schemas, driven through addField, replaceField, clearFields and
\* applyMeta.  loc.index counts the calls, loc.fields lists the arguments of the
\* addField calls, loc.valNode is the argument of the last call, res.D.m the
\* MetaInfo of the last applyMeta.
\* ------------------------------------------------------------------------

MaxCalls == 4

Target == 1
TargetKinds == {"ANY", "PRIMITIVE", "LIST", "RECORD"}

Named(sc, name) == [sc EXCEPT !.name = name]

\* two unnamed fields, two fields of one name, and a field whose name is an ordinal
PoolSchemas ==
    <<NewSchema("PRIMITIVE", T_number),
      NewSchema("PRIMITIVE", T_string),
      Named(NewSchema("PRIMITIVE", T_number), <<"a">>),
      Named(NewSchema("PRIMITIVE", T_string), <<"a">>),
      Named(NewSchema("PRIMITIVE", T_any), <<"b">>),
      Named(NewSchema("PRIMITIVE", T_bool), <<"1">>)>>
Pool == 2..(Len(PoolSchemas) + 1)

AttrA(n) == [k |-> <<"a">>, v |-> VNum(n)]
AttrB(n) == [k |-> <<"b">>, v |-> VNum(n)]
MetaInfos ==
    {[EmptyMeta EXCEPT !.comments = <<<<"c">>>>],
     [EmptyMeta EXCEPT !.attr = <<AttrA(1)>>],
     [EmptyMeta EXCEPT !.attr = <<AttrB(1), AttrA(2)>>],
     [EmptyMeta EXCEPT !.tags = <<<<"t">>>>],
     [EmptyMeta EXCEPT !.required = TRUE],
     [comments |-> <<<<"d">>>>, attr |-> <<AttrA(2)>>, tags |-> <<<<"u">>>>, required |-> FALSE]}

InitSchema ==
    /\ phase = "schema" /\ text = <<>> /\ cfg = CompactConfig /\ value = NoValue
    /\ \E kind \in TargetKinds :
          res = [NoResult EXCEPT !.D.S = <<NewSchema(kind, <<>>)>> \o PoolSchemas]
    /\ loc = [NoLocals EXCEPT !.node = Target]
    /\ enc = NoOutput /\ res2 = NoResult /\ enc2 = NoOutput /\ plain = NoValue

SchemaPhases == {"schema", "added", "replaced", "cleared", "applied"}

\* schema.addField(f)
AddField ==
    /\ phase \in SchemaPhases /\ loc.index < MaxCalls
    /\ \E f \in Pool :
          /\ res' = [res EXCEPT !.D.S = addField(@, Target, f)]
          /\ loc' = [loc EXCEPT !.fields = Append(@, f), !.index = @ + 1, !.valNode = f]
    /\ phase' = "added"
    /\ UNCHANGED <<text, value, cfg, enc, res2, enc2, plain>>

\* schema.replaceField(f); a field without a name makes it throw
ReplaceField ==
    /\ phase \in SchemaPhases /\ loc.index < MaxCalls
    /\ \E f \in Pool :
          /\ res' = [res EXCEPT !.D = replaceFieldOf(@, Target, f)]
          /\ loc' = [loc EXCEPT !.index = @ + 1, !.valNode = f]
          /\ phase' = IF res'.D.exc THEN "threw" ELSE "replaced"
    /\ UNCHANGED <<text, value, cfg, enc, res2, enc2, plain>>

\* schema.clearFields()
ClearFields ==
    /\ phase \in SchemaPhases /\ loc.index < MaxCalls
    /\ res' = [res EXCEPT !.D.S = clearFields(@, Target)]
    /\ loc' = [loc EXCEPT !.index = @ + 1, !.valNode = 0]
    /\ phase' = "cleared"
    /\ UNCHANGED <<text, value, cfg, enc, res2, enc2, plain>>

\* schema.applyMeta(info)
ApplyMeta ==
    /\ phase \in SchemaPhases /\ loc.index < MaxCalls
    /\ \E info \in MetaInfos :
          res' = [res EXCEPT !.D.S[Target] = Schema_applyMeta(@, info), !.D.m = info]
    /\ loc' = [loc EXCEPT !.index = @ + 1, !.valNode = 0]
    /\ phase' = "applied"
    /\ UNCHANGED <<text, value, cfg, enc, res2, enc2, plain>>

NextSchema == AddField \/ ReplaceField \/ ClearFields \/ ApplyMeta
SpecSchema == InitSchema /\ [][NextSchema]_vars

\* ------------------------------------------------------------------------
\* Properties
\* ------------------------------------------------------------------------

NoErrors(r) == Len(r.D.errors) = 0

\* C1: a text that decodes with zero errors encodes (compact) to a text t that
\* decodes with zero errors and encodes to t again
C1_CanonicalIsFixpoint ==
    (phase = "reencoded" /\ cfg.compact /\ NoErrors(res))
        => (NoErrors(res2) /\ enc2.r = enc.r)

\* C2: for a plain value v, decoding encode(v, compact) reports no errors and
\* encoding the decoded node again gives the same text
C2_ValueEncodingIsFixpoint ==
    (phase = "reencoded" /\ cfg.compact) => (NoErrors(res2) /\ enc2.r = enc.r)

RECURSIVE DeepEq(_, _)
\* deep equality of two plain values; the keys of an object in any order
DeepEq(a, b) ==
    /\ a.k = b.k
    /\ CASE a.k = "prim" -> a.v = b.v
         [] a.k = "list" ->
              /\ Len(a.items) = Len(b.items)
              /\ \A j \in 1..Len(a.items) : DeepEq(a.items[j], b.items[j])
         [] OTHER ->
              /\ Len(a.keys) = Len(b.keys)
              /\ \A j \in 1..Len(a.keys) :
                    \E h \in 1..Len(b.keys) :
                        b.keys[h] = a.keys[j] /\ DeepEq(a.items[j], b.items[h])

\* C3: decode(encode(v, compact)).node.dict() deeply equals the plain value v
C3_DictOfDecodedEqualsValue ==
    (phase = "dicted" /\ cfg.compact) => DeepEq(plain, value)

\* C4: decode returns for every text: no loop iteration leaves the cursor in
\* place forever, no exception escapes, and the result has a root node
C4_DecodeReturns ==
    /\ phase \notin {"hung", "threw"}
    /\ (phase = "decoded" => res.root # 0)
    /\ (phase = "redecoded" => res2.root # 0)

\* C5: encode returns for every decoded tree under every configuration
C5_EncodeReturns == phase # "overflow"

Min(a, b) == IF a < b THEN a ELSE b

Count(seq, ch) == Cardinality({j \in 1..Len(seq) : seq[j] = ch})

\* C6: the decoder never holds more than MAX_ERRORS errors: each error condition
\* is recorded until the list is full and dropped afterwards, and the parse goes
\* on unchanged: a record of k illegal characters still gets its k fields and
\* the cursor reaches the end of the text
C6_ErrorsCapped ==
    /\ Len(res.D.errors) <= MAX_ERRORS
    /\ Len(res.D.errors) = Min(res.D.raised, MAX_ERRORS)
    /\ (phase = "done" /\ text \in DiagTexts
          => /\ res.D.i = Len(text)
             /\ res.D.raised = Count(text, "?")
             /\ Len(res.D.N[res.root].fields) = Count(text, "?"))

\* C6, witness: a decode that met MaxBad error conditions has returned with
\* exactly MAX_ERRORS errors
C6_Witness ==
    phase = "done" /\ res.D.raised = MaxBad /\ Len(res.D.errors) = MAX_ERRORS

\* C7: the decoder never holds more than 50 warnings
C7_WarningsCapped == Len(res.D.warnings) <= 50

HasPositionedError(r, t) ==
    \E j \in 1..Len(r.D.errors) : r.D.errors[j].pos \in 0..Len(t)

HasBadChar(t) == \E j \in 1..Len(t) : t[j] \in BadChars

\* C8: decoding an unclosed list, a record with a character that starts no
\* value, a text with raw ANSI escape sequences, or a quoted string that ends
\* right after a backslash yields at least one error whose position is a cursor
\* index within the input
C8_BadInputsReportErrors ==
    (/\ phase = "done"
     /\ \/ text \in UnclosedListTexts \cup BackslashTexts
        \/ text \in ColorizedTexts \cup QuotedAnsiTexts
        \/ (text \in BadRecordTexts /\ HasBadChar(text)))
        => HasPositionedError(res, text)

\* the root of a decode result is a list node with at least one element
RootIsList(r) ==
    /\ r.root # 0
    /\ r.D.N[r.root].schema # 0
    /\ isList(r.D.S[r.D.N[r.root].schema])
    /\ Len(r.D.N[r.root].elements) > 0

\* C9: a list decoded without a header has, after decoding, the schema of its
\* first element as its element schema
C9_ElementSchemaIsFirst ==
    (phase = "decoded" /\ RootIsList(res))
        => res.D.S[res.D.N[res.root].schema].element
             = res.D.N[res.D.N[res.root].elements[1]].schema

\* [ // $a=1 // 1, 2 ]  and  [ 1 // $a=1 // , 2 ]
MetaBeforeFirstText ==
    <<"["," ","/","/"," ","$","a","=","1"," ","/","/"," ","1",","," ","2"," ","]">>
MetaAfterFirstText ==
    <<"["," ","1"," ","/","/"," ","$","a","=","1"," ","/","/"," ",","," ","2"," ","]">>

\* C10: a delimited metadata block directly inside the brackets attaches to the
\* list node and to none of its elements, and decoding reports no errors
C10_BlockMetaOnList ==
    (phase = "decoded" /\ text \in {MetaBeforeFirstText, MetaAfterFirstText})
        => /\ NoErrors(res)
           /\ MapHas(res.D.N[res.root].attr, <<"a">>)
           /\ \A j \in 1..Len(res.D.N[res.root].elements) :
                 res.D.N[res.D.N[res.root].elements[j]].attr = <<>>

\* the children of a container node, in order
ChildrenOf(nd) ==
    IF nd.elements # <<>> THEN nd.elements ELSE [j \in 1..Len(nd.fields) |-> nd.fields[j].v]

\* the object carries the metadata that the token tok writes
HasToken(obj, tok) ==
    CASE tok[1] = "$" -> MapHas(obj.attr, <<"a">>)
      [] tok[1] = "#" -> \E j \in 1..Len(obj.tags) : obj.tags[j] = <<"t">>
      [] OTHER -> \E j \in 1..Len(obj.comments) : obj.comments[j] = <<"c">>

\* the metadata of the case is on child cs.at (0: on the container) and nowhere else
TrailOnTarget(r, cs) ==
    LET nd == r.D.N[r.root]
        ch == ChildrenOf(nd)
    IN /\ NoErrors(r)
       /\ Len(ch) = (IF cs.at = 0 THEN 0 ELSE 2)
       /\ HasToken(nd, cs.tok) <=> cs.at = 0
       /\ \A j \in 1..Len(ch) : HasToken(r.D.N[ch[j]], cs.tok) <=> j = cs.at

\* C11: inline metadata that follows a child value and precedes the next ',' or
\* the closing delimiter of a list, positional record or named record attaches to
\* that child, not to the container and not to the following child; in a
\* container without children it attaches to the container
C11_TrailingMetaOnChild ==
    phase = "decoded" => \A cs \in TrailCases : text = TrailText(cs) => TrailOnTarget(res, cs)

\* C11, witness: a tag written behind the first of two list elements is on that
\* element
C11_Witness ==
    /\ phase = "decoded"
    /\ text = TrailText([kind |-> "list", tok |-> <<"#", "t">>, at |-> 1])
    /\ HasToken(res.D.N[res.D.N[res.root].elements[1]], <<"#", "t">>)

\* the name that a text with a backtick-quoted name gives to its key, attribute,
\* field or type
BacktickName(r, t) ==
    LET nd == r.D.N[r.root]
        sc == r.D.S[nd.schema]
    IN CASE t = BacktickKeyText -> Len(nd.fields) = 1 /\ nd.fields[1].k = <<"a", " ", "b">>
         [] t = BacktickAttrText -> MapHas(nd.attr, <<"k", "*">>)
                                      \/ \E j \in 1..Len(nd.elements) : MapHas(r.D.N[nd.elements[j]].attr, <<"k", "*">>)
         [] t = BacktickFieldText -> Len(sc.fields) = 1 /\ r.D.S[sc.fields[1]].name = <<"a", " ", "b">>
         [] OTHER -> sc.typeName = <<"T", "+">>

\* C12: a schema name, field name or attribute key written between backticks
\* decodes without errors to the text between the backticks, and the document
\* re-encodes to the same canonical text
C12_BacktickNames ==
    /\ (phase = "decoded" /\ text \in BacktickTexts) => NoErrors(res) /\ BacktickName(res, text)
    /\ (phase = "reencoded" /\ text \in BacktickTexts) => enc2.r = enc.r

\* the nodes reachable from the nodes in ns over elements and field values
RECURSIVE ReachN(_, _)
ReachN(N, ns) ==
    LET more == UNION {{N[n].elements[j] : j \in 1..Len(N[n].elements)}
                         \cup {N[n].fields[j].v : j \in 1..Len(N[n].fields)} : n \in ns}
    IN IF more \subseteq ns THEN ns ELSE ReachN(N, ns \cup more)

\* the schemas reachable from the schemas in ss over fields and element
RECURSIVE ReachS(_, _)
ReachS(S, ss) ==
    LET more == UNION {{S[x].fields[j] : j \in 1..Len(S[x].fields)}
                         \cup (IF S[x].element # 0 THEN {S[x].element} ELSE {}) : x \in ss}
    IN IF more \subseteq ss THEN ss ELSE ReachS(S, ss \cup more)

\* the schemas reachable from a decode result: from its schema and from the
\* schema of every node under its root
ResultSchemas(r) ==
    ReachS(r.D.S, ({r.rootSchema} \cup {r.D.N[n].schema : n \in ReachN(r.D.N, {r.root} \ {0})}) \ {0})

\* C13: every mention of @T, the one inside the body of T included, holds the
\* descriptor registered for T: each reachable record schema of type name T is
\* the registered schema object
C13_ReferencesShareDescriptor ==
    (phase = "decoded" /\ text \in {SelfRefText, TwoRefText})
        => /\ NoErrors(res)
           /\ MapHas(res.D.named, <<"T">>)
           /\ \A x \in ResultSchemas(res) :
                  res.D.S[x].typeName = <<"T">> => x = MapGet(res.D.named, <<"T">>)

\* C14: when a type name is defined twice, a later reference resolves to the
\* first definition: the root of the record typed @T has the field a of the
\* first body
C14_FirstDefinitionKept ==
    (phase = "decoded" /\ text = TwiceDefinedText)
        => /\ MapHas(res.D.named, <<"T">>)
           /\ res.D.N[res.root].schema = MapGet(res.D.named, <<"T">>)
           /\ MapHas(res.D.S[MapGet(res.D.named, <<"T">>)].fmap, <<"a">>)

\* C15: after n addField calls on a fresh schema, with named and unnamed fields
\* in any mix, fields has length n and every added field is returned by the
\* lookup by its ordinal and by the lookup by its name
C15_AddedFieldsRetrievable ==
    (phase = "added" /\ Len(loc.fields) = loc.index)
        => LET S == res.D.S IN
           /\ Len(S[Target].fields) = loc.index
           /\ \A j \in 1..loc.index :
                 /\ S[Target].fields[j] = loc.fields[j]
                 /\ getField(S, Target, S[loc.fields[j]].name) = loc.fields[j]

\* the target has a field of that name
HasFieldNamed(S, name) ==
    \E j \in 1..Len(S[Target].fields) : S[S[Target].fields[j]].name = name

\* replaceField(f) took S to S2 as stated: f stands at the ordinal of a field of
\* its name, every other ordinal is as before and the lookup by the name gives
\* f; without such a field S2 is what addField(f) makes of S
Replaced(S, S2, f) ==
    IF HasFieldNamed(S, S[f].name)
    THEN /\ \E idx \in 1..Len(S[Target].fields) :
               /\ S[S[Target].fields[idx]].name = S[f].name
               /\ S2[Target].fields = [S[Target].fields EXCEPT ![idx] = f]
         /\ getField(S2, Target, S[f].name) = f
    ELSE S2 = addField(S, Target, f)

Keys(m) == {m[j].k : j \in 1..Len(m)}

\* C17: applying metadata m to a schema appends m's comments and m's tags behind
\* the target's, overwrites the target's attributes key by key with m's and
\* keeps the other keys, and sets required to (target.required or m.required)
C17_ApplyMetaMerges ==
    [][phase' = "applied"
         => LET old == res.D.S[Target]
                new == res'.D.S[Target]
                m == res'.D.m
            IN /\ new.comments = old.comments \o m.comments
               /\ new.tags = old.tags \o m.tags
               /\ Keys(new.attr) = Keys(old.attr) \cup Keys(m.attr)
               /\ \A key \in Keys(new.attr) :
                     MapGet(new.attr, key) =
                        IF key \in Keys(m.attr) THEN MapGet(m.attr, key) ELSE MapGet(old.attr, key)
               /\ new.required = (old.required \/ m.required)
               /\ new.fields = old.fields /\ new.kind = old.kind]_vars

\* C17, witness: a target that had a comment, the attributes b = 1 and a = 2 and
\* was required got a = 1 applied: a is overwritten, the rest is kept
C17_Witness ==
    /\ phase = "applied"
    /\ res.D.m = [EmptyMeta EXCEPT !.attr = <<AttrA(1)>>]
    /\ res.D.S[Target].comments = <<<<"c">>>>
    /\ res.D.S[Target].attr = <<AttrB(1), AttrA(1)>>
    /\ res.D.S[Target].required

\* C18: for every string s, with double quotes, backslashes, newline, carriage
\* return and tab, with escapeNewLines on or off, the quoted text the encoder
\* writes for s decodes without errors to a string node of value s
C18_StringRoundTrip ==
    (phase = "redecoded" /\ value \in StringValues)
        => /\ NoErrors(res2)
           /\ res2.root # 0
           /\ res2.D.N[res2.root].value = value.v
           /\ res2.D.i = Len(enc.r)

\* C18, witness: the string of a backslash, a quote and a newline came back
\* from the text with the three escapes
C18_Witness ==
    /\ phase = "redecoded" /\ cfg.escapeNewLines
    /\ value = PPrim(VStr(<<"\\", "\"", "\n">>))
    /\ enc.r = <<"<">> \o T_string \o <<">", "\"", "\\", "\\", "\\", "\"", "\\", "n", "\"">>
    /\ res2.D.N[res2.root].value = VStr(<<"\\", "\"", "\n">>)

EndsWith(t, suffix) ==
    Len(t) >= Len(suffix) /\ SubSeq(t, Len(t) - Len(suffix) + 1, Len(t)) = suffix

\* a record node without metadata whose children are scalars without metadata,
\* each typed by the schema object of its field
PlainRecord(S, N, n) ==
    /\ n # 0 /\ N[n].schema # 0 /\ isRecord(S[N[n].schema])
    /\ N[n].elements = <<>> /\ ~HasMeta(N[n])
    /\ \A j \in 1..Len(N[n].fields) :
          LET ch == N[N[n].fields[j].v] IN
          /\ ~HasMeta(ch) /\ ch.fields = <<>> /\ ch.elements = <<>>
          /\ ch.schema # 0 /\ isPrimitive(S[ch.schema])
          /\ \E h \in 1..Len(S[N[n].schema].fields) :
                /\ S[N[n].schema].fields[h] = ch.schema
                /\ S[ch.schema].name = N[n].fields[j].k

\* one value per schema field, in schema order, null where the node has no child
\* of that name, and (null) without fields
ExpectedRecord(cfg0, S, N, n) ==
    LET fields == S[N[n].schema].fields
        part(j) == IF MapHas(N[n].fields, S[fields[j]].name)
                   THEN primitiveValue(cfg0, N[MapGet(N[n].fields, S[fields[j]].name)].value)
                   ELSE T_null
    IN IF fields = <<>> THEN <<"(">> \o T_null \o <<")">>
       ELSE <<"(">> \o Join([j \in 1..Len(fields) |-> part(j)], <<",">>) \o <<")">>

\* C19: the encoder renders a record node as one parenthesised positional value
\* per field of its schema, in schema field order, null for every schema field
\* for which the node has no child, and (null) when the schema has no fields
C19_RecordIsPositional ==
    (phase = "encoded" /\ cfg.compact /\ PlainRecord(res.D.S, res.D.N, res.root))
        => EndsWith(enc.r, ExpectedRecord(cfg, res.D.S, res.D.N, res.root))

\* C19, witness: the named record that gives only b under the header a, b, c
\* is written as (null,"x",null)
C19_Witness ==
    /\ phase = "encoded" /\ cfg.compact /\ text = MissingFieldsText
    /\ PlainRecord(res.D.S, res.D.N, res.root)
    /\ EndsWith(enc.r, <<"(">> \o T_null \o <<",", "\"", "x", "\"", ",">> \o T_null \o <<")">>)

\* C20: the plain structure of a record node lists the fields in the order of
\* the schema's fields: the named record written b, a under the header a, b
\* converts with the keys a, b
C20_DictInSchemaOrder ==
    (phase = "plain" /\ text = ReorderedText)
        => NoErrors(res) /\ plain.keys = <<<<"a">>, <<"b">>>>

\* C21: encode does not mutate its input: the nodes and the schemas are after
\* encode(node, config) what they were before, for every configuration,
\* includeArraySize included
C21_EncodeLeavesInput ==
    [][phase' = "encoded" => (res'.D.S = res.D.S /\ res'.D.N = res.D.N)]_vars

ScalarTypeName(v) ==
    CASE v.t = "str" -> T_string [] v.t = "num" -> T_number [] OTHER -> T_bool

\* C22: the node created for a non-null scalar has the context schema exactly
\* when the context is not ANY and its type name is the inferred primitive type
\* name; otherwise it has a fresh primitive schema of the inferred type name; the
\* context schema object is as it was
C22_ScalarSchemaChoice ==
    [][(phase' = "created" /\ value.v.t # "null")
         => LET ctx == currentSchema(res.D)
                sch == res'.D.N[res'.root].schema
                keeps == ctx # 0 /\ res.D.S[ctx].kind # "ANY"
                            /\ res.D.S[ctx].typeName = ScalarTypeName(value.v)
            IN /\ (sch = ctx) <=> keeps
               /\ ~keeps => /\ sch > Len(res.D.S)
                             /\ res'.D.S[sch] = NewSchema("PRIMITIVE", ScalarTypeName(value.v))
               /\ ctx # 0 => res'.D.S[ctx] = res.D.S[ctx]
               /\ res'.D.N[res'.root].value = value.v]_vars

\* C22, witnesses: a string created under a primitive string context has that
\* context schema; a number created under it has a fresh number schema
C22_Witness ==
    /\ phase = "created" /\ Len(res.D.ss) = 1
    /\ res.D.S[1] = NewSchema("PRIMITIVE", T_string)
    /\ \/ value.v = VStr(<<"a">>) /\ res.D.N[res.root].schema = 1
       \/ value.v = VNum(1) /\ res.D.N[res.root].schema # 1

\* the names and the type names of the fields of the root schema, in order
RootFieldNames(r) ==
    LET sc == r.D.S[r.D.N[r.root].schema]
    IN [j \in 1..Len(sc.fields) |-> r.D.S[sc.fields[j]].name]
RootFieldTypes(r) ==
    LET sc == r.D.S[r.D.N[r.root].schema]
    IN [j \in 1..Len(sc.fields) |-> r.D.S[sc.fields[j]].typeName]
RootField(r, j) == r.D.S[r.D.S[r.D.N[r.root].schema].fields[j]]

\* C23: in a named record under a record schema, a value that is not ANY
\* replaces an ANY field of its key at the same ordinal, a key without a field
\* appends an inferred field behind the existing ones, and a field that is not
\* ANY is as it was in the header whatever value comes
C23_NamedRecordFields ==
    phase = "decoded" =>
        /\ text = UntypedFieldText =>
              RootFieldNames(res) = <<<<"a">>, <<"b">>>> /\ RootFieldTypes(res) = <<T_string, T_number>>
        /\ text = NoFieldText =>
              RootFieldNames(res) = <<<<"a">>, <<"b">>>> /\ RootFieldTypes(res) = <<T_number, T_number>>
        /\ text = TypedFieldText =>
              RootFieldNames(res) = <<<<"a">>>> /\ RootFieldTypes(res) = <<T_number>>
        /\ text = ListFieldText =>
              /\ RootFieldNames(res) = <<<<"a">>>>
              /\ isList(RootField(res, 1)) /\ RootField(res, 1).fields = <<>>
              /\ RootField(res, 1).element # 0

\* C24: after decode no list schema reachable from the result has an element
\* schema that carries comments, attributes, tags or the required flag
C24_ElementMetaPromoted ==
    phase = "decoded" =>
        \A x \in ResultSchemas(res) :
            (isList(res.D.S[x]) /\ res.D.S[x].element # 0)
                => LET el == res.D.S[res.D.S[x].element]
                   IN ~HasMeta(el) /\ ~el.required

\* C25: every schema that holds one or more fields has kind RECORD, in the
\* states that addField, replaceField and clearFields reach and in every schema
\* reachable from a decode result
C25_FieldsImplyRecord ==
    /\ phase \in SchemaPhases =>
          \A x \in 1..Len(res.D.S) : res.D.S[x].fields # <<>> => isRecord(res.D.S[x])
    /\ phase = "decoded" =>
          \A x \in ResultSchemas(res) : res.D.S[x].fields # <<>> => isRecord(res.D.S[x])

\* C26: every LIST schema reachable from a decode result has an element schema,
\* the list-typed fields inferred for record children included
C26_ListHasElement ==
    phase = "decoded" =>
        \A x \in ResultSchemas(res) : isList(res.D.S[x]) => res.D.S[x].element # 0

\* C28: in every record schema reachable from a decode result the field names
\* are pairwise distinct, the field list and the name index have the same size,
\* and the index stores each field under its name
C28_FieldIndexConsistent ==
    phase = "decoded" =>
        \A x \in ResultSchemas(res) :
            isRecord(res.D.S[x]) =>
                LET sc == res.D.S[x] IN
                /\ \A p, q \in 1..Len(sc.fields) :
                      p # q => res.D.S[sc.fields[p]].name # res.D.S[sc.fields[q]].name
                /\ Len(sc.fmap) = Len(sc.fields)
                /\ \A p \in 1..Len(sc.fields) :
                      MapGet(sc.fmap, res.D.S[sc.fields[p]].name) = sc.fields[p]

\* C27: when the input ends while a list, a positional record, a named record
\* or a schema body is open, decode records at least one error
C27_TruncatedReportsError ==
    (phase = "decoded" /\ text \in TruncatedTexts) => ~NoErrors(res)

\* C30: parsing a value leaves the schema-context stack at the depth it had when
\* the parsing began, for any number of children and separators: after the
\* decode of a list without a header the stack holds at most the context that
\* createNode installs for the root
C30_SchemaStackBalanced ==
    (phase = "decoded" /\ text \in ListTexts /\ NoErrors(res)) => Len(res.D.ss) <= 1

\* the keys of the objects of a list, in first-seen order
RECURSIVE UnionKeys(_, _)
UnionKeys(items, acc) ==
    IF items = <<>> THEN acc
    ELSE UnionKeys(Tail(items),
                   acc \o SelectSeq(Head(items).keys,
                                    LAMBDA key : \A j \in 1..Len(acc) : acc[j] # key))

\* a list of one or more objects whose values are all the number 1
NumberRecords(v) ==
    /\ v.k = "list" /\ Len(v.items) > 0
    /\ \A j \in 1..Len(v.items) :
          /\ v.items[j].k = "dict" /\ Len(v.items[j].keys) > 0
          /\ \A h \in 1..Len(v.items[j].items) : v.items[j].items[h] = PPrim(VNum(1))

\* the row of an object under the header keys: 1 where it has the key, else null
ExpectedRow(d, keys) ==
    <<"(">> \o Join([j \in 1..Len(keys) |->
                        IF \E h \in 1..Len(d.keys) : d.keys[h] = keys[j] THEN <<"1">> ELSE T_null],
                    <<",">>) \o <<")">>

ExpectedRows(v) ==
    <<"[">> \o Join([j \in 1..Len(v.items) |-> ExpectedRow(v.items[j], UnionKeys(v.items, <<>>))],
                    <<",">>) \o <<"]">>

\* C29: in the encoder's output for a list of records every record element has
\* one positional value per field of the header, in header order, also when the
\* objects of a plain array have different key sets
C29_RowsFollowHeader ==
    (phase = "encoded" /\ cfg.compact /\ NumberRecords(value))
        => EndsWith(enc.r, ExpectedRows(value))
====
